---- MODULE Spec2Model ----
(***************************************************************************)
(* A model of the KYF agent's heartbeat cycle (src/kyf/core/agent.py), its *)
(* file-backed state repository (src/kyf/core/state_repository.py) and the *)
(* content analyzer (src/kyf/services/content_analyzer.py).                *)
(*                                                                         *)
(* A cycle is a coroutine.  It gives up the event loop only while it waits *)
(* for the forum API or for the model; the state repository's methods hold *)
(* no real suspension point (their lock is never held across an await), so *)
(* they run in one piece with the code around them.  The variable cur      *)
(* names the cycle that holds the event loop, 0 when the loop is free.     *)
(*                                                                         *)
(* The input sanitizer (src/kyf/utils/sanitizer.py), filter_checkable, the *)
(* prompts, the forum client's request quota, the retried client methods   *)
(* and main() are each followed on their own, in a specification of their  *)
(* own, with the cycle at rest.                                            *)
(***************************************************************************)
EXTENDS Integers, Sequences, FiniteSets, TLC

\* ------------------------------------------------------------------ bounds

MaxCycles == 2
\* cycles started over one run of the model
MaxFeedLen == 2
\* posts in one feed page, comments in one comment page
MaxCommentsPerHeartbeat == 1
\* KYFAgent max_comments_per_heartbeat (configurable, ge=1)
MaxRepliesPerHeartbeat == 1
\* KYFAgent max_replies_per_heartbeat (configurable, ge=1)
MaxPostsPerDay == 1
\* KYFAgent max_posts_per_day (configurable, ge=1)
MaxFaults == 1
\* steps of one run that meet a failure of the environment: an exception of
\* the forum API, a model error other than the rate limit, a file I/O error,
\* a stop of the process

StartHour == 36
\* the hour (UTC, counted from the start of day 0) at which a run begins: noon
\* of day 1
TickHours == 6
\* the time that passes between two calls made to the store directly
MaxHour == 60
\* the clock stops at noon of day 2
MaxLogLen == 2
\* entries logged by calls made to the store directly
MaxEarlierPosts == 12
\* own posts logged on earlier days

MaxChunks == 3
\* pieces a text is put together from
MaxContentLength == 12
\* InputSanitizer._MAX_CONTENT_LENGTH, 10,000 characters in the source
ExcerptLength == 6
\* (post.body or "")[:500] in _generate_comment_reply, 500 in the source
MaxBatch == 2
\* posts in one list given to filter_checkable
MaxRequests == 2
\* _build_rate_limit_hook max_requests, 90 in the source
WindowSeconds == 2
\* _build_rate_limit_hook window_seconds, 60 in the source
MaxTime == 5
\* seconds over which the forum client's requests are followed
MaxSent == 4
\* requests followed
MaxCalls == 2
\* calls of a retried method made one after the other
CycleSteps == 4
\* points at which a cycle waits, as far as main() is concerned
MaxRuns == 2
\* cycles the scheduler starts over one run of main()

\* ------------------------------------------------------- program constants

MinConfidence == 6
\* ContentAnalyzerService min_confidence 0.6, in tenths
OwnPostWindow == 10
\* own_post_ids[-10:]
SubstantiveLen == 50
\* _vote_on_comment: len(comment.body) < 50
StopAfterAttempt == 3
\* stop_after_attempt(3) on generate, generate_json and _request

\* ------------------------------------------------------------- the world

Tasks == {1, 2}
\* the slots of concurrently running run_heartbeat coroutines

Posts == {"p1", "p2", "p3"}
\* the posts the forum serves; p3 carries an injection phrase
SuspiciousPosts == {"p3"}

Comments == {"c1", "c2", "c3"}
\* the comments the forum serves under the agent's posts: c1 and c3 by another
\* user, c2 by the agent itself; only c1 has a body of 50 characters or more
AgentName == "kyf"
CommentAuthor(c) == IF c = "c2" THEN AgentName ELSE "alice"
CommentBodyLen(c) == IF c = "c1" THEN 80 ELSE 12

Verdicts == {"true", "mostly_true", "false", "misleading", "partially_true", "unknown"}

RetryAfters == {"none", "30"}
\* LLMRateLimitError.retry_after: None or a number of seconds

\* the UTC offsets, in hours, of the machines the agent may run on
UtcOffsets == {-8, 0, 9}

\* sequences over S of length at most n
RECURSIVE SeqsUpTo(_, _)
SeqsUpTo(S, n) ==
    IF n = 0 THEN {<<>>}
    ELSE LET shorter == SeqsUpTo(S, n - 1)
         IN  shorter \cup {Append(s, x) : s \in {q \in shorter : Len(q) = n - 1}, x \in S}

Range(s) == {s[k] : k \in 1..Len(s)}

Count(s, x) == Cardinality({k \in 1..Len(s) : s[k] = x})

Reverse(s) == [k \in 1..Len(s) |-> s[Len(s) + 1 - k]]

\* A window that keeps the whole list.
LastN_all(s, n) == s

LastN(s, n) == IF Len(s) <= n THEN s ELSE SubSeq(s, Len(s) - n + 1, Len(s))

\* the pages get_comments may return: at most MaxFeedLen comments, each listed
\* once under its post
CommentPages ==
    {cs \in SeqsUpTo(Comments, MaxFeedLen) :
        \A i, j \in 1..Len(cs) : cs[i] = cs[j] => i = j}

\* ------------------------------------------------------------------ state

VARIABLES
    seen_ids,        \* FileStateRepository._seen_ids (memory)
    replied_ids,     \* FileStateRepository._replied_ids (memory)
    seen_file,       \* seen_posts.json
    replied_file,    \* replied_comments.json
    actions,         \* actions.jsonl, one entry per line
    limits_file,     \* llm-limits.json
    agent_username,  \* KYFAgent._agent_username
    task,            \* per cycle: position and local variables of run_heartbeat
    cur,             \* the cycle holding the event loop, 0: none
    up,              \* the process is running and the store is initialized
    cycles,          \* cycles started so far
    published,       \* original posts the forum accepted so far
    analyzed,        \* per post: times it was handed to filter_checkable
    factComments,    \* per post: fact-check comments the forum accepted
    replies,         \* per comment: threaded replies the forum accepted
    markedPosts,     \* posts for which mark_post_seen has returned
    markedComments,  \* comments for which mark_comment_replied has returned
    faults,          \* failures of the environment so far (I/O errors, stops)
    clock,           \* the time, in hours UTC
    tz,              \* the UTC offset of the machine's local time, in hours
    counted,         \* the last get_today_action_count call made directly
    san,             \* InputSanitizer applied to one text
    flt,             \* one call of filter_checkable
    prompt,          \* the prompts built from one post and one comment
    hook,            \* the forum client's transport and its request hook
    call,            \* one call of a retried client method
    proc             \* main(): the scheduler, the signal, the handles

vars == <<seen_ids, replied_ids, seen_file, replied_file, actions, limits_file,
          agent_username, task, cur, up, cycles, published, analyzed,
          factComments, replies, markedPosts, markedComments, faults,
          clock, tz, counted, san, flt, prompt, hook, call, proc>>

store == <<seen_ids, replied_ids, seen_file, replied_file>>
world == <<published, analyzed, factComments, replies>>
marks == <<markedPosts, markedComments>>
calendar == <<clock, tz, counted>>
\* the components that are exercised on their own
aside == <<san, flt, prompt, hook, call, proc>>
\* the cycle and the state repository
core == <<seen_ids, replied_ids, seen_file, replied_file, actions, limits_file,
          agent_username, task, cur, up, cycles, published, analyzed,
          factComments, replies, markedPosts, markedComments, faults,
          clock, tz, counted>>

\* a component that takes no part in the run
Off == [pc |-> "off"]

\* ------------------------------------------------------------------ files

AbsentFile == [kind |-> "absent", ids |-> {}]
EmptyFile == [kind |-> "empty", ids |-> {}]
PartialFile == [kind |-> "partial", ids |-> {}]
OkFile(ids) == [kind |-> "ok", ids |-> ids]

\* Path.write_text(data): open(mode="w") truncates the file, then the data is
\* written and flushed.  A failed write leaves the old file (the open failed),
\* an empty file (truncated, nothing flushed) or a prefix of the data.
WriteText(old, new) ==
    {[file |-> new, raised |-> FALSE],
     [file |-> old, raised |-> TRUE],
     [file |-> EmptyFile, raised |-> TRUE],
     [file |-> PartialFile, raised |-> TRUE]}

\* What a process finds when it stops in the middle of write_text.
TornWrite == {EmptyFile, PartialFile}

\* ----------------------------------------------------- FileStateRepository

\* A store that reports every post as new.
is_post_seen_never(mem, post_id) == FALSE

is_post_seen(mem, post_id) == post_id \in mem

is_comment_replied(mem, comment_id) == comment_id \in mem

\* A store that keeps the seen identifiers in the file only.
mark_post_seen_file_only(mem, file, post_id) ==
    {[mem |-> mem, file |-> w.file, raised |-> w.raised] :
        w \in WriteText(file, OkFile(mem \cup {post_id}))}

\* A store that remembers a replied comment only when its file was written.
mark_comment_replied_after_write(mem, file, comment_id) ==
    {[mem |-> IF w.raised THEN mem ELSE mem \cup {comment_id},
      file |-> w.file, raised |-> w.raised] :
        w \in WriteText(file, OkFile(mem \cup {comment_id}))}

\* mark_post_seen: the identifier is added to the memory set, then the whole
\* set is written to the file.
mark_post_seen(mem, file, post_id) ==
    {[mem |-> mem \cup {post_id}, file |-> w.file, raised |-> w.raised] :
        w \in WriteText(file, OkFile(mem \cup {post_id}))}

mark_comment_replied(mem, file, comment_id) ==
    {[mem |-> mem \cup {comment_id}, file |-> w.file, raised |-> w.raised] :
        w \in WriteText(file, OkFile(mem \cup {comment_id}))}

\* initialize: a missing or blank file leaves the set empty; a file that is
\* not JSON makes json.loads raise.
LoadIds(file) == IF file.kind = "ok" THEN file.ids ELSE {}

Loadable(file) == file.kind # "partial"

\* the date part of datetime.utcnow().isoformat() at hour h
UtcDate(h) == h \div 24

\* date.today() at hour h: the date of the machine's local time
LocalDate(h) == (h + tz) \div 24

Today == LocalDate(clock)

\* ActionLog: created_at defaults to datetime.utcnow()
Entry(type, target, details) ==
    [type |-> type, target |-> target, details |-> details, created_at |-> clock]

\* A log_action that opens the log for writing, not for appending.
log_action_rewriting(log, entry) ==
    {[log |-> <<entry>>, raised |-> FALSE],
     [log |-> log, raised |-> TRUE]}

\* log_action: one line appended, or OSError and nothing appended.
log_action(log, entry) ==
    {[log |-> Append(log, entry), raised |-> FALSE],
     [log |-> log, raised |-> TRUE]}

\* get_today_action_count: the entries of the type whose created_at text
\* starts with date.today().isoformat()
get_today_action_count(log, type) ==
    Cardinality({k \in 1..Len(log) :
                    log[k].type = type /\ UtcDate(log[k].created_at) = Today})

RECURSIVE get_action_target_ids(_, _)
get_action_target_ids(log, type) ==
    IF log = <<>> THEN <<>>
    ELSE LET rest == get_action_target_ids(SubSeq(log, 1, Len(log) - 1), type)
             e == log[Len(log)]
         IN  IF e.type = type /\ e.target # "none" THEN Append(rest, e.target) ELSE rest

\* ------------------------------------------------------------ model client

\* What LLMClient.generate_json gives a caller: the parsed JSON object, or an
\* exception: LLMRateLimitError (with its retry_after), a provider error, or
\* json.loads failing on the model's text.
NoRaw == [has |-> "absent", conf |-> "absent"]

LLMFailures ==
    {[kind |-> "rate_limit", retry |-> r, raw |-> NoRaw] : r \in RetryAfters}
    \cup {[kind |-> k, retry |-> "none", raw |-> NoRaw] : k \in {"error", "malformed"}}

\* The JSON objects the model may answer an analysis prompt with.
AnalysisJson ==
    {[kind |-> "json", retry |-> "none", raw |-> [has |-> h, conf |-> c]] :
        h \in {"true", "false", "absent"}, c \in {"absent", "0.5", "0.6", "0.9", "1.2"}}

\* confidence in tenths; an absent confidence takes the field's default 0.0
Tenths(c) ==
    CASE c = "0.5" -> 5
      [] c = "0.6" -> 6
      [] c = "0.9" -> 9
      [] c = "1.2" -> 12
      [] OTHER -> 0

\* AnalysisResult.model_validate: has_checkable_claim is required,
\* confidence must lie in [0.0, 1.0].
AnalysisValid(raw) == raw.has # "absent" /\ Tenths(raw.conf) \in 0..10

AnalysisResult(has, conf) == [has_checkable_claim |-> has, confidence |-> conf]

\* ---------------------------------------------------- ContentAnalyzerService

\* An analyzer without the handler: every exception of the call leaves it.
analyze_unguarded(llm) ==
    IF llm.kind = "json" /\ AnalysisValid(llm.raw)
    THEN [raised |-> "none", retry |-> "none",
          result |-> AnalysisResult(llm.raw.has = "true", Tenths(llm.raw.conf))]
    ELSE [raised |-> IF llm.kind = "json" THEN "invalid" ELSE llm.kind,
          retry |-> llm.retry, result |-> AnalysisResult(FALSE, 0)]

\* analyze: the model call and the validation sit in one try block whose
\* handler catches Exception and returns the default result.
analyze(llm) ==
    IF llm.kind = "json" /\ AnalysisValid(llm.raw)
    THEN [raised |-> "none", retry |-> "none",
          result |-> AnalysisResult(llm.raw.has = "true", Tenths(llm.raw.conf))]
    ELSE [raised |-> "none", retry |-> "none", result |-> AnalysisResult(FALSE, 0)]

\* A test that drops a post whose confidence equals the threshold.
Checkable_strict(result) ==
    result.has_checkable_claim /\ result.confidence > MinConfidence

\* filter_checkable keeps a post when its analysis passes this test
Checkable(result) == result.has_checkable_claim /\ result.confidence >= MinConfidence

is_suspicious(post) == post \in SuspiciousPosts

\* filter_checkable skips suspicious posts without calling analyze
RECURSIVE SkipSuspicious(_)
SkipSuspicious(posts) ==
    IF posts = <<>> THEN <<>>
    ELSE IF is_suspicious(Head(posts)) THEN SkipSuspicious(Tail(posts))
    ELSE posts

\* ------------------------------------------------------------ cycle locals

NoAnalysis == [llm |-> "none", raised |-> FALSE, kept |-> FALSE, dflt |-> FALSE]

\* posted, sent: the fact-check comments and the replies the forum accepted
\* from the running phase of the cycle; gen: a note that the generation call
\* just made failed
IdleLocals ==
    [pc |-> "idle", sort |-> 1, made |-> 0, posts |-> <<>>, unseen |-> <<>>,
     checkable |-> <<>>, verdict |-> "none", direction |-> "none", own |-> <<>>,
     cpost |-> "none", comments |-> <<>>, replied |-> 0, retry |-> "none",
     an |-> NoAnalysis, hb |-> 0, last |-> "none", posted |-> 0, sent |-> 0,
     gen |-> "none"]

\* the positions at which the coroutine waits for the forum API or the model
AwaitPcs ==
    {"fetch_heartbeat", "get_feed", "get_posts", "analyze", "generate_reply",
     "create_comment", "vote", "get_profile", "get_comments", "get_post",
     "generate_comment_reply", "create_reply", "vote_comment", "post_creator",
     "create_post"}

Runs(t) ==
    /\ up = "up"
    /\ \/ cur = t
       \/ cur = 0 /\ task[t].pc \in AwaitPcs

\* The cycle moves on with locals l; it keeps the event loop unless it now
\* waits.  failed: the step took a failure of the environment.
Move(t, l, failed) ==
    /\ failed => faults < MaxFaults
    /\ faults' = IF failed THEN faults + 1 ELSE faults
    /\ task' = [task EXCEPT ![t] = l]
    /\ cur' = IF l.pc \in AwaitPcs \cup {"idle"} THEN 0 ELSE t
    /\ UNCHANGED <<calendar, aside>>

\* an and gen are notes about the model call just made: any other step drops
\* them
Go(t, l, failed) == Move(t, [l EXCEPT !.an = NoAnalysis, !.gen = "none"], failed)

\* the generation call of the step failed with something else than the rate
\* limit
GenFailed(t, l, note, failed) ==
    Move(t, [l EXCEPT !.an = NoAnalysis, !.gen = note], failed)

\* run_heartbeat returns: complete, aborted (rate limit recorded), failed (an
\* exception caught by the last handler), escaped (an exception left the call)
Finish(l, outcome) == [IdleLocals EXCEPT !.last = outcome, !.hb = l.hb]

\* except LLMRateLimitError in run_heartbeat
Abort(l, retry) ==
    [IdleLocals EXCEPT !.pc = "write_limits", !.retry = retry, !.an = l.an]

\* ------------------------------------------------------- _browse_and_engage

\* head of the loop over [HOT, NEW]; the locals of _browse_and_engage end
\* with it
EnterSort(l) ==
    IF l.sort > 2 \/ l.made >= MaxCommentsPerHeartbeat
    THEN [l EXCEPT !.pc = "own_posts", !.sort = 1, !.made = 0, !.posts = <<>>,
                   !.unseen = <<>>, !.checkable = <<>>, !.verdict = "none",
                   !.direction = "none", !.posted = 0]
    ELSE [l EXCEPT !.pc = "get_feed", !.posts = <<>>, !.unseen = <<>>,
                   !.checkable = <<>>, !.verdict = "none", !.direction = "none"]

NextSort(l) == EnterSort([l EXCEPT !.sort = @ + 1])

\* head of the loop over the checkable posts
EnterEngage(l) ==
    IF l.checkable = <<>> \/ l.made >= MaxCommentsPerHeartbeat
    THEN NextSort(l)
    ELSE [l EXCEPT !.pc = "generate_reply", !.verdict = "none", !.direction = "none"]

NextEngage(l) == EnterEngage([l EXCEPT !.checkable = Tail(@)])

\* after the unseen filter: nothing unseen continues with the next sort order,
\* otherwise the unseen posts go to filter_checkable
AfterFilter(l) ==
    IF l.unseen = <<>> THEN NextSort(l)
    ELSE LET rest == SkipSuspicious(l.unseen)
         IN  IF rest = <<>> THEN EnterEngage([l EXCEPT !.unseen = <<>>])
             ELSE [l EXCEPT !.pc = "analyze", !.unseen = rest]

AfterFetch(l, posts) ==
    IF posts = <<>> THEN NextSort(l)
    ELSE [l EXCEPT !.pc = "filter_seen", !.posts = posts, !.unseen = <<>>]

\* ------------------------------------------------------------ run_heartbeat

\* The scheduler starts a cycle in the lowest free slot.
Begin(t) ==
    /\ up = "up" /\ cur = 0
    /\ task[t].pc = "idle"
    /\ \A u \in Tasks : u < t => task[u].pc # "idle"
    /\ cycles < MaxCycles
    /\ cycles' = cycles + 1
    /\ Go(t, [IdleLocals EXCEPT !.pc = "fetch_heartbeat"], FALSE)
    /\ UNCHANGED <<store, actions, limits_file, agent_username, up, world, marks>>

\* one cycle at a time: the scheduler's guarantee
StartCycle(t) ==
    /\ \A u \in Tasks : task[u].pc = "idle"
    /\ Begin(t)

\* a cycle started while another one is still running
StartOverlapping(t) ==
    /\ cycles > 0 => \E u \in Tasks : task[u].pc # "idle"
    /\ Begin(t)

\* A fetch whose failure ends the cycle.
FetchHeartbeat_fatal(t) ==
    /\ Runs(t) /\ task[t].pc = "fetch_heartbeat"
    /\ \/ Go(t, EnterSort(task[t]), FALSE)
       \/ Go(t, Finish(task[t], "failed"), TRUE)
    /\ UNCHANGED <<store, actions, limits_file, agent_username, up, cycles, world, marks>>

\* _fetch_heartbeat: the status document, or a failure that is logged and dropped
FetchHeartbeat(t) ==
    /\ Runs(t) /\ task[t].pc = "fetch_heartbeat"
    /\ \E failed \in BOOLEAN : Go(t, EnterSort(task[t]), failed)
    /\ UNCHANGED <<store, actions, limits_file, agent_username, up, cycles, world, marks>>

\* get_feed(sort): a page of posts, or any exception, which falls back to
\* get_posts.  A personalized feed that is not served is charged as a failure
\* of the environment only when the global feed fails as well.
GetFeed(t) ==
    /\ Runs(t) /\ task[t].pc = "get_feed"
    /\ \/ \E posts \in SeqsUpTo(Posts, MaxFeedLen) :
            Go(t, AfterFetch(task[t], posts), FALSE)
       \/ Go(t, [task[t] EXCEPT !.pc = "get_posts"], FALSE)
    /\ UNCHANGED <<store, actions, limits_file, agent_username, up, cycles, world, marks>>

\* get_posts(sort): a page, MoltbookClientError (continue with the next sort
\* order) or another exception, which leaves _browse_and_engage
GetPosts(t) ==
    /\ Runs(t) /\ task[t].pc = "get_posts"
    /\ \/ \E posts \in SeqsUpTo(Posts, MaxFeedLen) :
            Go(t, AfterFetch(task[t], posts), FALSE)
       \/ Go(t, NextSort(task[t]), TRUE)
       \/ Go(t, Finish(task[t], "failed"), TRUE)
    /\ UNCHANGED <<store, actions, limits_file, agent_username, up, cycles, world, marks>>

\* the unseen list is complete: it is passed to filter_checkable
Handoff(unseen) == [p \in Posts |-> analyzed[p] + Count(unseen, p)]

FilterTurn(t, l) ==
    IF l.posts = <<>>
    THEN /\ analyzed' = Handoff(l.unseen)
         /\ Go(t, AfterFilter(l), FALSE)
    ELSE /\ analyzed' = analyzed
         /\ Go(t, l, FALSE)

\* one turn of the loop that builds unseen: is_post_seen, then mark_post_seen
FilterSeen(t) ==
    LET l == task[t]
        post == Head(l.posts)
    IN  /\ Runs(t) /\ l.pc = "filter_seen"
        /\ IF is_post_seen(seen_ids, post)
           THEN /\ UNCHANGED <<seen_ids, seen_file, markedPosts>>
                /\ FilterTurn(t, [l EXCEPT !.posts = Tail(@)])
           ELSE \E m \in mark_post_seen(seen_ids, seen_file, post) :
                /\ seen_ids' = m.mem
                /\ seen_file' = m.file
                /\ IF m.raised
                   THEN /\ Go(t, Finish(l, "failed"), TRUE)
                        /\ UNCHANGED <<markedPosts, analyzed>>
                   ELSE /\ markedPosts' = markedPosts \cup {post}
                        /\ FilterTurn(t, [l EXCEPT !.posts = Tail(@),
                                                   !.unseen = Append(@, post)])
        /\ UNCHANGED <<replied_ids, replied_file, actions, limits_file, agent_username,
                       up, cycles, published, factComments, replies, markedComments>>

\* what the analyze call just made was given and what became of it: whether it
\* raised, whether filter_checkable kept the post, whether the result is the
\* default one
AnalysisNote(llm, r) ==
    [llm |-> IF llm.kind = "json" /\ ~AnalysisValid(llm.raw) THEN "invalid" ELSE llm.kind,
     raised |-> r.raised # "none",
     kept |-> r.raised = "none" /\ Checkable(r.result),
     dflt |-> r.raised = "none" /\ r.result = AnalysisResult(FALSE, 0)]

\* filter_checkable: analyze the next unseen post that is not suspicious
Analyze(t) ==
    LET l == task[t]
        post == Head(l.unseen)
    IN  /\ Runs(t) /\ l.pc = "analyze"
        /\ \E llm \in LLMFailures \cup AnalysisJson :
             LET r == analyze(llm)
                 note == AnalysisNote(llm, r)
                 failed == llm.kind \in {"error", "malformed"}
                 l2 == [l EXCEPT !.unseen = SkipSuspicious(Tail(@)),
                                 !.checkable = IF note.kept THEN Append(@, post) ELSE @,
                                 !.an = note]
             IN  IF r.raised = "rate_limit"
                 THEN Move(t, Abort([l EXCEPT !.an = note], r.retry), failed)
                 ELSE IF r.raised # "none"
                 THEN Move(t, [Finish(l, "failed") EXCEPT !.an = note], failed)
                 ELSE IF l2.unseen = <<>> THEN Move(t, EnterEngage(l2), failed)
                 ELSE Move(t, l2, failed)
        /\ UNCHANGED <<store, actions, limits_file, agent_username, up, cycles, world, marks>>

\* A fact-check step that goes on to publish when the generation failed.
GenerateReply_publishing(t) ==
    LET l == task[t]
    IN  /\ Runs(t) /\ l.pc = "generate_reply"
        /\ \/ \E v \in Verdicts :
                Go(t, [l EXCEPT !.pc = "create_comment", !.verdict = v], FALSE)
           \/ \E r \in RetryAfters : Go(t, Abort(l, r), FALSE)
           \/ \E failed \in BOOLEAN :
                GenFailed(t, [l EXCEPT !.pc = "create_comment"], "reply_failed", failed)
        /\ UNCHANGED <<store, actions, limits_file, agent_username, up, cycles, world, marks>>

\* FactCheckerService.generate_reply: a validated response with its verdict,
\* LLMRateLimitError, or any other failure (model error, JSON that does not
\* validate as FactCheckResponse); every exception is re-raised to the agent
GenerateReply(t) ==
    LET l == task[t]
    IN  /\ Runs(t) /\ l.pc = "generate_reply"
        /\ \/ \E v \in Verdicts :
                Go(t, [l EXCEPT !.pc = "create_comment", !.verdict = v], FALSE)
           \/ \E r \in RetryAfters : Go(t, Abort(l, r), FALSE)
           \/ \E failed \in BOOLEAN : GenFailed(t, NextEngage(l), "reply_failed", failed)
        /\ UNCHANGED <<store, actions, limits_file, agent_username, up, cycles, world, marks>>

\* A create_comment step whose exception ends the cycle.
CreateComment_fatal(t) ==
    LET l == task[t]
        post == Head(l.checkable)
    IN  /\ Runs(t) /\ l.pc = "create_comment"
        /\ \/ /\ factComments' = [factComments EXCEPT ![post] = @ + 1]
              /\ Go(t, [l EXCEPT !.pc = "log_comment", !.posted = @ + 1], FALSE)
           \/ /\ UNCHANGED factComments
              /\ Go(t, Finish(l, "failed"), TRUE)
        /\ UNCHANGED <<store, actions, limits_file, agent_username, up, cycles,
                       published, analyzed, replies, marks>>

\* create_comment(post_id, content): accepted by the forum, or an exception
CreateComment(t) ==
    LET l == task[t]
        post == Head(l.checkable)
    IN  /\ Runs(t) /\ l.pc = "create_comment"
        /\ \/ /\ factComments' = [factComments EXCEPT ![post] = @ + 1]
              /\ Go(t, [l EXCEPT !.pc = "log_comment", !.posted = @ + 1], FALSE)
           \/ /\ UNCHANGED factComments
              /\ Go(t, NextEngage(l), TRUE)
        /\ UNCHANGED <<store, actions, limits_file, agent_username, up, cycles,
                       published, analyzed, replies, marks>>

\* A vote mapping that also upvotes a partially true post.
VoteDirection_lenient(verdict) ==
    IF verdict \in {"true", "mostly_true", "partially_true"} THEN "upvote"
    ELSE IF verdict \in {"false", "misleading"} THEN "downvote"
    ELSE "none"

\* _vote_on_post: the direction the verdict asks for, "none" for no vote
VoteDirection(verdict) ==
    IF verdict \in {"true", "mostly_true"} THEN "upvote"
    ELSE IF verdict \in {"false", "misleading"} THEN "downvote"
    ELSE "none"

\* log_action(COMMENT_CREATED), comments_made += 1, then _vote_on_post up to
\* its vote call
LogComment(t) ==
    LET l == task[t]
        post == Head(l.checkable)
        direction == VoteDirection(l.verdict)
    IN  /\ Runs(t) /\ l.pc = "log_comment"
        /\ \E w \in log_action(actions, Entry("comment_created", post, "verdict")) :
             /\ actions' = w.log
             /\ IF w.raised THEN Go(t, NextEngage(l), TRUE)
                ELSE IF direction = "none"
                THEN Go(t, NextEngage([l EXCEPT !.made = @ + 1]), FALSE)
                ELSE Go(t, [l EXCEPT !.made = @ + 1, !.pc = "vote", !.verdict = "none",
                                     !.direction = direction], FALSE)
        /\ UNCHANGED <<store, limits_file, agent_username, up, cycles, world, marks>>

\* A vote step that goes on to log VOTE_CAST whether or not the call went through.
Vote_logs_anyway(t) ==
    LET l == task[t]
    IN  /\ Runs(t) /\ l.pc = "vote"
        /\ \E failed \in BOOLEAN : Go(t, [l EXCEPT !.pc = "log_vote"], failed)
        /\ UNCHANGED <<store, actions, limits_file, agent_username, up, cycles, world, marks>>

\* vote(target_id, direction): accepted, or an exception logged as vote_failed
Vote(t) ==
    LET l == task[t]
    IN  /\ Runs(t) /\ l.pc = "vote"
        /\ \/ Go(t, [l EXCEPT !.pc = "log_vote"], FALSE)
           \/ Go(t, NextEngage(l), TRUE)
        /\ UNCHANGED <<store, actions, limits_file, agent_username, up, cycles, world, marks>>

\* log_action(VOTE_CAST) after a vote that went through
LogVote(t) ==
    LET l == task[t]
        post == Head(l.checkable)
    IN  /\ Runs(t) /\ l.pc = "log_vote"
        /\ \E w \in log_action(actions, Entry("vote_cast", post, l.direction)) :
             /\ actions' = w.log
             /\ Go(t, NextEngage(l), w.raised)
        /\ UNCHANGED <<store, limits_file, agent_username, up, cycles, world, marks>>

\* ------------------------------------------ _reply_to_comments_on_own_posts

\* the phase is over and its locals with it: _maybe_create_post starts with
\* get_today_action_count
EnterPost(l) ==
    [l EXCEPT !.pc = "count_today", !.own = <<>>, !.cpost = "none", !.comments = <<>>,
              !.replied = 0, !.sent = 0]

\* head of the loop over reversed(own_post_ids[-10:])
NextOwnPost(l) ==
    IF l.own = <<>> \/ l.replied >= MaxRepliesPerHeartbeat
    THEN EnterPost(l)
    ELSE [l EXCEPT !.pc = "get_comments", !.cpost = Head(l.own), !.own = Tail(@),
                   !.comments = <<>>]

\* head of the loop over the comments of one own post: the budget, the
\* replied check and the own-author check; it stops at a comment to reply to
RECURSIVE NextComment(_, _, _)
NextComment(l, mem, name) ==
    IF l.comments = <<>> THEN NextOwnPost(l)
    ELSE IF l.replied >= MaxRepliesPerHeartbeat THEN NextOwnPost(l)
    ELSE IF is_comment_replied(mem, Head(l.comments))
    THEN NextComment([l EXCEPT !.comments = Tail(@)], mem, name)
    ELSE IF name # "none" /\ CommentAuthor(Head(l.comments)) = name
    THEN NextComment([l EXCEPT !.comments = Tail(@)], mem, name)
    ELSE [l EXCEPT !.pc = "generate_comment_reply"]

\* the current comment is done with: on to the next one
AfterComment(l, mem, name) == NextComment([l EXCEPT !.comments = Tail(@)], mem, name)

\* A reply phase that fetches the profile in every cycle.
OwnPosts_always_fetches(t) ==
    LET l == task[t]
        ids == get_action_target_ids(actions, "post_created")
        l2 == [l EXCEPT !.own = Reverse(LastN(ids, OwnPostWindow)), !.replied = 0]
    IN  /\ Runs(t) /\ l.pc = "own_posts"
        /\ \/ Go(t, IF ids = <<>> THEN EnterPost(l)
                    ELSE [l2 EXCEPT !.pc = "get_profile"], FALSE)
           \/ Go(t, Finish(l, "failed"), TRUE)
        /\ UNCHANGED <<store, actions, limits_file, agent_username, up, cycles, world, marks>>

\* get_action_target_ids(POST_CREATED): the list, or an exception reading the log
OwnPosts(t) ==
    LET l == task[t]
        ids == get_action_target_ids(actions, "post_created")
        l2 == [l EXCEPT !.own = Reverse(LastN(ids, OwnPostWindow)), !.replied = 0]
    IN  /\ Runs(t) /\ l.pc = "own_posts"
        /\ \/ Go(t, IF ids = <<>> THEN EnterPost(l)
                    ELSE IF agent_username = "none" THEN [l2 EXCEPT !.pc = "get_profile"]
                    ELSE NextOwnPost(l2), FALSE)
           \/ Go(t, Finish(l, "failed"), TRUE)
        /\ UNCHANGED <<store, actions, limits_file, agent_username, up, cycles, world, marks>>

\* _get_agent_username: get_profile gives the name, or fails and None stays
GetProfile(t) ==
    LET l == task[t]
    IN  /\ Runs(t) /\ l.pc = "get_profile"
        /\ \/ /\ agent_username' = AgentName
              /\ Go(t, NextOwnPost(l), FALSE)
           \/ /\ agent_username' = agent_username
              /\ Go(t, NextOwnPost(l), TRUE)
        /\ UNCHANGED <<store, actions, limits_file, up, cycles, world, marks>>

\* get_comments(post_id): a page of comments, or an exception
GetComments(t) ==
    LET l == task[t]
    IN  /\ Runs(t) /\ l.pc = "get_comments"
        /\ \/ \E cs \in CommentPages :
                Go(t, IF cs = <<>> THEN NextOwnPost(l)
                      ELSE [l EXCEPT !.pc = "get_post", !.comments = cs], FALSE)
           \/ Go(t, NextOwnPost(l), TRUE)
        /\ UNCHANGED <<store, actions, limits_file, agent_username, up, cycles, world, marks>>

\* get_post(post_id): the post for the prompt, or an exception
GetPost(t) ==
    LET l == task[t]
    IN  /\ Runs(t) /\ l.pc = "get_post"
        /\ \/ Go(t, NextComment(l, replied_ids, agent_username), FALSE)
           \/ Go(t, NextOwnPost(l), TRUE)
        /\ UNCHANGED <<store, actions, limits_file, agent_username, up, cycles, world, marks>>

\* _generate_comment_reply: the reply text, LLMRateLimitError, or another
\* failure (model error, JSON that does not validate as CommentReplyResponse)
GenerateCommentReply(t) ==
    LET l == task[t]
    IN  /\ Runs(t) /\ l.pc = "generate_comment_reply"
        /\ \/ Go(t, [l EXCEPT !.pc = "create_reply"], FALSE)
           \/ \E r \in RetryAfters : Go(t, Abort(l, r), FALSE)
           \/ \E failed \in BOOLEAN :
                Go(t, AfterComment(l, replied_ids, agent_username), failed)
        /\ UNCHANGED <<store, actions, limits_file, agent_username, up, cycles, world, marks>>

\* A reply step that goes on to mark the comment when the forum refused the
\* reply.
CreateReply_marks_anyway(t) ==
    LET l == task[t]
        comment == Head(l.comments)
    IN  /\ Runs(t) /\ l.pc = "create_reply"
        /\ \/ /\ replies' = [replies EXCEPT ![comment] = @ + 1]
              /\ Go(t, [l EXCEPT !.pc = "mark_replied", !.sent = @ + 1], FALSE)
           \/ /\ UNCHANGED replies
              /\ Go(t, [l EXCEPT !.pc = "mark_replied"], TRUE)
        /\ UNCHANGED <<store, actions, limits_file, agent_username, up, cycles,
                       published, analyzed, factComments, marks>>

\* create_comment(post_id, content, parent_id=comment.id)
CreateReply(t) ==
    LET l == task[t]
        comment == Head(l.comments)
    IN  /\ Runs(t) /\ l.pc = "create_reply"
        /\ \/ /\ replies' = [replies EXCEPT ![comment] = @ + 1]
              /\ Go(t, [l EXCEPT !.pc = "mark_replied", !.sent = @ + 1], FALSE)
           \/ /\ UNCHANGED replies
              /\ Go(t, AfterComment(l, replied_ids, agent_username), TRUE)
        /\ UNCHANGED <<store, actions, limits_file, agent_username, up, cycles,
                       published, analyzed, factComments, marks>>

\* mark_comment_replied(comment.id)
MarkReplied(t) ==
    LET l == task[t]
        comment == Head(l.comments)
    IN  /\ Runs(t) /\ l.pc = "mark_replied"
        /\ \E m \in mark_comment_replied(replied_ids, replied_file, comment) :
             /\ replied_ids' = m.mem
             /\ replied_file' = m.file
             /\ IF m.raised
                THEN /\ Go(t, AfterComment(l, m.mem, agent_username), TRUE)
                     /\ UNCHANGED markedComments
                ELSE /\ markedComments' = markedComments \cup {comment}
                     /\ Go(t, [l EXCEPT !.pc = "log_replied"], FALSE)
        /\ UNCHANGED <<seen_ids, seen_file, actions, limits_file, agent_username, up,
                       cycles, world, markedPosts>>

\* log_action(COMMENT_REPLIED), replies_made += 1, then _vote_on_comment
LogReplied(t) ==
    LET l == task[t]
        comment == Head(l.comments)
    IN  /\ Runs(t) /\ l.pc = "log_replied"
        /\ \E w \in log_action(actions, Entry("comment_replied", comment, l.cpost)) :
             /\ actions' = w.log
             /\ IF w.raised THEN Go(t, AfterComment(l, replied_ids, agent_username), TRUE)
                ELSE IF CommentBodyLen(comment) < SubstantiveLen
                THEN Go(t, AfterComment([l EXCEPT !.replied = @ + 1],
                                        replied_ids, agent_username), FALSE)
                ELSE Go(t, [l EXCEPT !.replied = @ + 1, !.pc = "vote_comment"], FALSE)
        /\ UNCHANGED <<store, limits_file, agent_username, up, cycles, world, marks>>

\* A comment vote that goes on to log COMMENT_VOTE_CAST whether or not the
\* call went through.
VoteComment_logs_anyway(t) ==
    LET l == task[t]
    IN  /\ Runs(t) /\ l.pc = "vote_comment"
        /\ \E failed \in BOOLEAN : Go(t, [l EXCEPT !.pc = "log_comment_vote"], failed)
        /\ UNCHANGED <<store, actions, limits_file, agent_username, up, cycles, world, marks>>

\* vote_comment(comment_id, UPVOTE): accepted, or an exception that is logged
VoteComment(t) ==
    LET l == task[t]
    IN  /\ Runs(t) /\ l.pc = "vote_comment"
        /\ \/ Go(t, [l EXCEPT !.pc = "log_comment_vote"], FALSE)
           \/ Go(t, AfterComment(l, replied_ids, agent_username), TRUE)
        /\ UNCHANGED <<store, actions, limits_file, agent_username, up, cycles, world, marks>>

\* log_action(COMMENT_VOTE_CAST) after a comment vote that went through
LogCommentVote(t) ==
    LET l == task[t]
        comment == Head(l.comments)
    IN  /\ Runs(t) /\ l.pc = "log_comment_vote"
        /\ \E w \in log_action(actions, Entry("comment_vote_cast", comment, "upvote")) :
             /\ actions' = w.log
             /\ Go(t, AfterComment(l, replied_ids, agent_username), w.raised)
        /\ UNCHANGED <<store, limits_file, agent_username, up, cycles, world, marks>>

\* -------------------------------------------------------- _maybe_create_post

\* the forum's identifier of the n-th post the agent publishes
OwnPostId(n) == "o" \o ToString(n)

\* A post phase that goes to the post creator whatever the day's count is.
CountToday_uncapped(t) ==
    LET l == task[t]
    IN  /\ Runs(t) /\ l.pc = "count_today"
        /\ \/ Go(t, [l EXCEPT !.pc = "post_creator"], FALSE)
           \/ Go(t, Finish(l, "failed"), TRUE)
        /\ UNCHANGED <<store, actions, limits_file, agent_username, up, cycles, world, marks>>

\* get_today_action_count(POST_CREATED) against max_posts_per_day
CountToday(t) ==
    LET l == task[t]
    IN  /\ Runs(t) /\ l.pc = "count_today"
        /\ \/ Go(t, IF get_today_action_count(actions, "post_created") >= MaxPostsPerDay
                    THEN [l EXCEPT !.pc = "log_heartbeat"]
                    ELSE [l EXCEPT !.pc = "post_creator"], FALSE)
           \/ Go(t, Finish(l, "failed"), TRUE)
        /\ UNCHANGED <<store, actions, limits_file, agent_username, up, cycles, world, marks>>

\* PostCreatorService.create_post: validated content, LLMRateLimitError, or
\* another failure, re-raised to the agent and logged there
PostCreator(t) ==
    LET l == task[t]
    IN  /\ Runs(t) /\ l.pc = "post_creator"
        /\ \/ Go(t, [l EXCEPT !.pc = "create_post"], FALSE)
           \/ \E r \in RetryAfters : Go(t, Abort(l, r), FALSE)
           \/ \E failed \in BOOLEAN :
                GenFailed(t, [l EXCEPT !.pc = "log_heartbeat"], "post_failed", failed)
        /\ UNCHANGED <<store, actions, limits_file, agent_username, up, cycles, world, marks>>

\* A post step that goes on to log POST_CREATED when the forum refused the
\* post.
CreatePost_logs_anyway(t) ==
    LET l == task[t]
    IN  /\ Runs(t) /\ l.pc = "create_post"
        /\ \/ /\ published' = published + 1
              /\ Go(t, [l EXCEPT !.pc = "log_post", !.cpost = OwnPostId(published + 1)],
                    FALSE)
           \/ /\ UNCHANGED published
              /\ Go(t, [l EXCEPT !.pc = "log_post", !.cpost = OwnPostId(published + 1)],
                    TRUE)
        /\ UNCHANGED <<store, actions, limits_file, agent_username, up, cycles,
                       analyzed, factComments, replies, marks>>

\* create_post(title, content, submolt): the published post, or an exception
CreatePost(t) ==
    LET l == task[t]
    IN  /\ Runs(t) /\ l.pc = "create_post"
        /\ \/ /\ published' = published + 1
              /\ Go(t, [l EXCEPT !.pc = "log_post", !.cpost = OwnPostId(published + 1)],
                    FALSE)
           \/ /\ UNCHANGED published
              /\ Go(t, [l EXCEPT !.pc = "log_heartbeat"], TRUE)
        /\ UNCHANGED <<store, actions, limits_file, agent_username, up, cycles,
                       analyzed, factComments, replies, marks>>

\* log_action(POST_CREATED, target_id=post.id)
LogPost(t) ==
    LET l == task[t]
    IN  /\ Runs(t) /\ l.pc = "log_post"
        /\ \E w \in log_action(actions, Entry("post_created", l.cpost, "topic")) :
             /\ actions' = w.log
             /\ Go(t, [l EXCEPT !.pc = "log_heartbeat", !.cpost = "none"], w.raised)
        /\ UNCHANGED <<store, limits_file, agent_username, up, cycles, world, marks>>

\* ----------------------------------------------- the end of run_heartbeat

\* log_action(HEARTBEAT): the last statement of the try block
LogHeartbeat(t) ==
    LET l == task[t]
    IN  /\ Runs(t) /\ l.pc = "log_heartbeat"
        /\ \E w \in log_action(actions, Entry("heartbeat", "none", "none")) :
             /\ actions' = w.log
             /\ IF w.raised THEN Go(t, Finish(l, "failed"), TRUE)
                ELSE Go(t, Finish([l EXCEPT !.hb = @ + 1], "complete"), FALSE)
        /\ UNCHANGED <<store, limits_file, agent_username, up, cycles, world, marks>>

LimitRecord(retry, n) == [hit_at |-> n, phase |-> "heartbeat", retry_after_seconds |-> retry]

NoLimits == [kind |-> "absent", entries |-> <<>>]

LimitsFile(kind, entries) ==
    [kind |-> kind, entries |-> IF kind = "ok" THEN entries ELSE <<>>]

\* _write_llm_limits reads the entries: those of the file, or [] when the
\* file is missing, is not JSON or cannot be read (OSError)
ReadLimits(file) ==
    IF file.kind = "ok"
    THEN {[entries |-> file.entries, raised |-> FALSE], [entries |-> <<>>, raised |-> TRUE]}
    ELSE {[entries |-> <<>>, raised |-> FALSE]}

\* _write_llm_limits: the new entry appended to what was read, the file
\* rewritten with write_text; an OSError of the write leaves run_heartbeat
WriteLimits(t) ==
    LET l == task[t]
    IN  /\ Runs(t) /\ l.pc = "write_limits"
        /\ \E r \in ReadLimits(limits_file) :
           \E w \in WriteText(limits_file,
                              LimitsFile("ok", Append(r.entries,
                                                      LimitRecord(l.retry, cycles)))) :
             /\ limits_file' = LimitsFile(w.file.kind,
                                          IF w.file.kind = "ok" THEN w.file.entries
                                          ELSE <<>>)
             /\ Go(t, Finish(l, IF w.raised THEN "escaped" ELSE "aborted"),
                   r.raised \/ w.raised)
        /\ UNCHANGED <<store, actions, agent_username, up, cycles, world, marks>>

\* ------------------------------------------------------ process lifecycle

\* the memory of a process that has just been created
FreshTasks == [t \in Tasks |-> IdleLocals]

\* main() returns after the shutdown signal, between two cycles: what the
\* process held in memory is gone, the files stay as they are.
Shutdown ==
    /\ up = "up" /\ cur = 0
    /\ \A t \in Tasks : task[t].pc = "idle"
    /\ up' = "down"
    /\ seen_ids' = {} /\ replied_ids' = {} /\ agent_username' = "none"
    /\ task' = FreshTasks /\ cur' = 0
    /\ UNCHANGED <<seen_file, replied_file, actions, limits_file, cycles, world, marks,
                   faults, calendar, aside>>

\* The process is stopped inside a cycle (a kill, a power loss).
Crash ==
    /\ up = "up"
    /\ \E t \in Tasks : task[t].pc # "idle"
    /\ faults < MaxFaults /\ faults' = faults + 1
    /\ up' = "down"
    /\ seen_ids' = {} /\ replied_ids' = {} /\ agent_username' = "none"
    /\ task' = FreshTasks /\ cur' = 0
    /\ UNCHANGED <<seen_file, replied_file, actions, limits_file, cycles, world, marks,
                   calendar, aside>>

\* The process stops inside write_text: the file being rewritten is left torn.
CrashInWrite(t) ==
    LET l == task[t]
    IN  /\ up = "up" /\ cur = t
        /\ \/ /\ l.pc = "filter_seen" /\ ~is_post_seen(seen_ids, Head(l.posts))
              /\ seen_file' \in TornWrite
              /\ UNCHANGED <<replied_file, limits_file>>
           \/ /\ l.pc = "mark_replied"
              /\ replied_file' \in TornWrite
              /\ UNCHANGED <<seen_file, limits_file>>
           \/ /\ l.pc = "write_limits"
              /\ limits_file' \in {[kind |-> f.kind, entries |-> <<>>] : f \in TornWrite}
              /\ UNCHANGED <<seen_file, replied_file>>
        /\ faults < MaxFaults /\ faults' = faults + 1
        /\ up' = "down"
        /\ seen_ids' = {} /\ replied_ids' = {} /\ agent_username' = "none"
        /\ task' = FreshTasks /\ cur' = 0
        /\ UNCHANGED <<actions, cycles, world, marks, calendar, aside>>

\* main() of a new process: FileStateRepository.initialize loads both sets
Restart ==
    /\ up = "down"
    /\ Loadable(seen_file) /\ Loadable(replied_file)
    /\ up' = "up"
    /\ seen_ids' = LoadIds(seen_file)
    /\ replied_ids' = LoadIds(replied_file)
    /\ UNCHANGED <<seen_file, replied_file, actions, limits_file, agent_username, task,
                   cur, cycles, world, marks, faults, calendar, aside>>

\* json.loads raises in initialize: main() ends before the agent is built
InitializeFails ==
    /\ up = "down"
    /\ ~(Loadable(seen_file) /\ Loadable(replied_file))
    /\ up' = "init_failed"
    /\ UNCHANGED <<store, actions, limits_file, agent_username, task, cur, cycles,
                   world, marks, faults, calendar, aside>>

\* --------------------------------------------------------- specifications

\* A log the agent may start the day with: nothing, or a post of its own that
\* it published and logged a day earlier.
PriorLogs ==
    {<<>>, <<[type |-> "post_created", target |-> "o0", details |-> "topic",
              created_at |-> StartHour - 24]>>}

NoCount == [type |-> "none", n |-> 0]

AsideOff ==
    /\ san = Off /\ flt = Off /\ prompt = Off
    /\ hook = Off /\ call = Off /\ proc = Off

\* the process starts at noon on a machine whose local time is UTC
InitWith(f) ==
    /\ clock = StartHour /\ tz = 0 /\ counted = NoCount
    /\ seen_ids = {} /\ replied_ids = {}
    /\ seen_file = AbsentFile /\ replied_file = AbsentFile
    /\ actions \in PriorLogs
    /\ limits_file = NoLimits
    /\ agent_username = "none"
    /\ task = FreshTasks
    /\ cur = 0
    /\ up = "up"
    /\ cycles = 0
    /\ published = 0
    /\ analyzed = [p \in Posts |-> 0]
    /\ factComments = [p \in Posts |-> 0]
    /\ replies = [c \in Comments |-> 0]
    /\ markedPosts = {}
    /\ markedComments = {}
    /\ faults = f
    /\ AsideOff

Init == InitWith(0)

Step(t) ==
    \/ FetchHeartbeat(t)
    \/ GetFeed(t)
    \/ GetPosts(t)
    \/ FilterSeen(t)
    \/ Analyze(t)
    \/ GenerateReply(t)
    \/ CreateComment(t)
    \/ LogComment(t)
    \/ Vote(t)
    \/ LogVote(t)
    \/ OwnPosts(t)
    \/ GetProfile(t)
    \/ GetComments(t)
    \/ GetPost(t)
    \/ GenerateCommentReply(t)
    \/ CreateReply(t)
    \/ MarkReplied(t)
    \/ LogReplied(t)
    \/ VoteComment(t)
    \/ LogCommentVote(t)
    \/ CountToday(t)
    \/ PostCreator(t)
    \/ CreatePost(t)
    \/ LogPost(t)
    \/ LogHeartbeat(t)
    \/ WriteLimits(t)

\* one process, one cycle at a time
Next == \E t \in Tasks : StartCycle(t) \/ Step(t)

Spec == Init /\ [][Next]_vars

\* the process may stop at any point and be started again
NextCrash ==
    \/ Next
    \/ Shutdown
    \/ Crash
    \/ \E t \in Tasks : CrashInWrite(t)
    \/ Restart
    \/ InitializeFails

SpecCrash == Init /\ [][NextCrash]_vars

\* one process, cycles started without waiting for the running one, in an
\* environment that never fails
NextOverlap == \E t \in Tasks : StartOverlapping(t) \/ Step(t)

InitQuiet == InitWith(MaxFaults)

SpecOverlap == InitQuiet /\ [][NextOverlap]_vars

\* Calls made to the state repository directly, on a machine in any time
\* zone, while time passes.

CountedTypes == {"post_created", "heartbeat"}

\* await repo.log_action(ActionLog(action_type=type))
StoreLog(type) ==
    /\ Len(actions) < MaxLogLen
    /\ \E w \in log_action(actions, Entry(type, "none", "none")) :
         /\ ~w.raised
         /\ actions' = w.log
    /\ counted' = NoCount
    /\ UNCHANGED <<store, limits_file, agent_username, task, cur, up, cycles, world,
                   marks, faults, clock, tz, aside>>

\* await repo.get_today_action_count(type)
StoreCount(type) ==
    /\ counted' = [type |-> type, n |-> get_today_action_count(actions, type)]
    /\ UNCHANGED <<store, actions, limits_file, agent_username, task, cur, up, cycles,
                   world, marks, faults, clock, tz, aside>>

\* time passes
Tick ==
    /\ clock + TickHours <= MaxHour
    /\ clock' = clock + TickHours
    /\ counted' = NoCount
    /\ UNCHANGED <<store, actions, limits_file, agent_username, task, cur, up, cycles,
                   world, marks, faults, tz, aside>>

InitStore ==
    /\ clock = StartHour /\ tz \in UtcOffsets /\ counted = NoCount
    /\ seen_ids = {} /\ replied_ids = {}
    /\ seen_file = AbsentFile /\ replied_file = AbsentFile
    /\ actions = <<>>
    /\ limits_file = NoLimits
    /\ agent_username = "none"
    /\ task = FreshTasks
    /\ cur = 0
    /\ up = "up"
    /\ cycles = 0
    /\ published = 0
    /\ analyzed = [p \in Posts |-> 0]
    /\ factComments = [p \in Posts |-> 0]
    /\ replies = [c \in Comments |-> 0]
    /\ markedPosts = {}
    /\ markedComments = {}
    /\ faults = 0
    /\ AsideOff

NextStore ==
    \/ \E type \in CountedTypes : StoreLog(type)
    \/ \E type \in CountedTypes : StoreCount(type)
    \/ Tick

SpecStore == InitStore /\ [][NextStore]_vars

\* ------------------------------------------------------------ InputSanitizer

\* A text is a sequence of characters.  The characters outside ASCII are
\* named: FW_e is the fullwidth letter e (U+FF45), CY_e the Cyrillic letter
\* ie (U+0435), LIG_fi the ligature fi (U+FB01).
Chunks ==
    {<<"e", "v", "a", "l", "(">>,
     <<"E", "V", "A", "L", " ", "(">>,
     <<"FW_e", "v", "a", "l", "(">>,
     <<"CY_e", "v", "a", "l", "(">>,
     <<"[", "I", "N", "S", "T", "]">>,
     <<"[", "/", "i", "n", "s", "t", "]">>,
     <<"x">>,
     <<" ">>,
     <<"LIG_fi">>}

RECURSIVE Concat(_)
Concat(ss) == IF ss = <<>> THEN <<>> ELSE Head(ss) \o Concat(Tail(ss))

\* the texts the forum or the model may hand to the agent
Texts == {Concat(ss) : ss \in SeqsUpTo(Chunks, MaxChunks)}

Prefix(text, n) == IF Len(text) <= n THEN text ELSE SubSeq(text, 1, n)

Drop(text, n) == SubSeq(text, n + 1, Len(text))

\* unicodedata.normalize("NFKC", c) of one character: compatibility
\* characters decompose, letters of another script are left as they are
NFKC(c) ==
    CASE c = "FW_e" -> <<"e">>
      [] c = "LIG_fi" -> <<"f", "i">>
      [] OTHER -> <<c>>

\* _normalize_unicode
RECURSIVE normalize_unicode(_)
normalize_unicode(text) ==
    IF text = <<>> THEN <<>>
    ELSE NFKC(Head(text)) \o normalize_unicode(Tail(text))

\* re.IGNORECASE compares letters without their case
Lower(c) ==
    CASE c = "E" -> "e" [] c = "V" -> "v" [] c = "A" -> "a" [] c = "L" -> "l"
      [] c = "I" -> "i" [] c = "N" -> "n" [] c = "S" -> "s" [] c = "T" -> "t"
      [] c = "F" -> "f" [] c = "R" -> "r" [] c = "D" -> "d"
      [] OTHER -> c

\* text goes on, from position k, with the letters of word in any case
StartsWith(text, k, word) ==
    /\ Len(text) >= k + Len(word) - 1
    /\ \A j \in 1..Len(word) : Lower(text[k + j - 1]) = word[j]

\* the spaces of text from position k on: \s*
RECURSIVE Spaces(_, _)
Spaces(text, k) ==
    IF k <= Len(text) /\ text[k] = " " THEN 1 + Spaces(text, k + 1) ELSE 0

\* _INJECTION_PATTERNS, in the order of the list: \[/?INST\] and eval\s*\(
Patterns == <<"inst", "eval">>

\* the length of the match of the pattern at the head of text, 0: no match
MatchAtHead(pattern, text) ==
    IF pattern = "inst"
    THEN LET k == IF Len(text) >= 2 /\ text[2] = "/" THEN 3 ELSE 2
         IN  IF /\ text # <<>> /\ text[1] = "["
                /\ StartsWith(text, k, <<"i", "n", "s", "t">>)
                /\ Len(text) >= k + 4 /\ text[k + 4] = "]"
             THEN k + 4 ELSE 0
    ELSE LET n == IF StartsWith(text, 1, <<"e", "v", "a", "l">>)
                  THEN Spaces(text, 5) ELSE 0
         IN  IF /\ StartsWith(text, 1, <<"e", "v", "a", "l">>)
                /\ Len(text) >= 5 + n /\ text[5 + n] = "("
             THEN 5 + n ELSE 0

\* the marker that replaces a match: "[FILTERED]"
Filtered == <<"[", "F", "I", "L", "T", "E", "R", "E", "D", "]">>

\* pattern.sub("[FILTERED]", text): the matches from left to right, what was
\* put in is not searched again
RECURSIVE Sub(_, _)
Sub(pattern, text) ==
    IF text = <<>> THEN <<>>
    ELSE LET n == MatchAtHead(pattern, text)
         IN  IF n > 0 THEN Filtered \o Sub(pattern, Drop(text, n))
             ELSE <<Head(text)>> \o Sub(pattern, Tail(text))

\* pattern.search(text)
Search(pattern, text) ==
    \E k \in 1..Len(text) : MatchAtHead(pattern, Drop(text, k - 1)) > 0

\* for pattern in _INJECTION_PATTERNS: text = pattern.sub(...)
RECURSIVE SubAll(_, _)
SubAll(patterns, text) ==
    IF patterns = <<>> THEN text
    ELSE SubAll(Tail(patterns), Sub(Head(patterns), text))

\* str.strip()
RECURSIVE LStrip(_)
LStrip(text) ==
    IF text # <<>> /\ Head(text) = " " THEN LStrip(Tail(text)) ELSE text

Strip(text) == Reverse(LStrip(Reverse(LStrip(text))))

\* InputSanitizer.sanitize
sanitize(text) ==
    IF text = <<>> THEN text
    ELSE Strip(SubAll(Patterns, normalize_unicode(Prefix(text, MaxContentLength))))

\* InputSanitizer.is_suspicious
is_suspicious_text(text) ==
    /\ text # <<>>
    /\ \E k \in 1..Len(Patterns) : Search(Patterns[k], normalize_unicode(text))

\* One text is checked, sanitized, and what came out is sanitized again;
\* NoText stands where sanitize was not called yet.
NoText == <<"none">>

CheckText ==
    /\ san.pc = "text"
    /\ san' = [san EXCEPT !.pc = "checked", !.flagged = is_suspicious_text(san.text)]
    /\ UNCHANGED <<core, flt, prompt, hook, call, proc>>

SanitizeText ==
    /\ san.pc = "checked"
    /\ san' = [san EXCEPT !.pc = "sanitized", !.out = sanitize(san.text)]
    /\ UNCHANGED <<core, flt, prompt, hook, call, proc>>

SanitizeAgain ==
    /\ san.pc = "sanitized"
    /\ san' = [san EXCEPT !.pc = "again", !.again = sanitize(san.out)]
    /\ UNCHANGED <<core, flt, prompt, hook, call, proc>>

\* ---------------------------------------------------------- filter_checkable

Plain == <<"x">>
Injected == <<"e", "v", "a", "l", "(">>

\* the posts of a batch: a title, and a body that may be missing (None)
BatchPosts ==
    {[title |-> t, body |-> b] : t \in {Plain, Injected}, b \in {<<>>, Plain, Injected}}

\* A filter that looks at the title only.
PostSuspicious_title_only(post) == is_suspicious_text(post.title)

\* is_suspicious(post.title) or is_suspicious(post.body or "")
PostSuspicious(post) ==
    is_suspicious_text(post.title) \/ is_suspicious_text(post.body)

\* what filter_checkable did with one post of its input
Skipped == [called |-> FALSE, result |-> AnalysisResult(FALSE, 0)]
Analyzed(result) == [called |-> TRUE, result |-> result]

\* one turn of the loop of filter_checkable
FilterCheckable ==
    LET post == flt.posts[flt.k]
    IN  /\ flt # Off /\ flt.raised = "none" /\ flt.k <= Len(flt.posts)
        /\ IF PostSuspicious(post)
           THEN flt' = [flt EXCEPT !.k = @ + 1, !.did = Append(@, Skipped)]
           ELSE \E llm \in LLMFailures \cup AnalysisJson :
                  LET r == analyze(llm)
                  IN  IF r.raised # "none"
                      THEN flt' = [flt EXCEPT !.raised = r.raised]
                      ELSE flt' = [flt EXCEPT
                                     !.k = @ + 1,
                                     !.did = Append(@, Analyzed(r.result)),
                                     !.results =
                                        IF Checkable(r.result)
                                        THEN Append(@, [post |-> post, analysis |-> r.result])
                                        ELSE @]
        /\ UNCHANGED <<core, san, prompt, hook, call, proc>>

\* filter_checkable has returned
FilterDone == flt # Off /\ flt.raised = "none" /\ flt.k > Len(flt.posts)

\* -------------------------------------------------------------- the prompts

\* the texts the code puts in for a missing field
General == <<"g">>
UnspecifiedClaim == <<"u">>
Anonymous == <<"n">>

OrElse(text, default) == IF text = <<>> THEN default ELSE text

\* ContentAnalyzerService.analyze: PromptTemplates.ANALYZE_POST.format(...)
AnalyzePrompt(p) ==
    [template |-> "ANALYZE_POST",
     title |-> sanitize(p.title),
     body |-> sanitize(p.body),
     submolt |-> OrElse(p.submolt, General)]

\* FactCheckerService.generate_reply: PromptTemplates.FACT_CHECK_REPLY.format(...)
FactCheckPrompt(p) ==
    [template |-> "FACT_CHECK_REPLY",
     title |-> sanitize(p.title),
     body |-> sanitize(p.body),
     claim_summary |-> sanitize(OrElse(p.claim_summary, UnspecifiedClaim))]

\* KYFAgent._generate_comment_reply: PromptTemplates.COMMENT_REPLY.format(...)
CommentReplyPrompt(p) ==
    [template |-> "COMMENT_REPLY",
     post_title |-> sanitize(p.title),
     post_body_excerpt |-> sanitize(Prefix(p.body, ExcerptLength)),
     comment_body |-> sanitize(p.comment_body),
     comment_author |-> sanitize(OrElse(p.comment_author, Anonymous))]

Build(made) ==
    /\ prompt # Off
    /\ made \notin prompt.built
    /\ prompt' = [prompt EXCEPT !.built = @ \cup {made}]
    /\ UNCHANGED <<core, san, flt, hook, call, proc>>

BuildAnalyzePrompt == Build(AnalyzePrompt(prompt))

BuildFactCheckPrompt == Build(FactCheckPrompt(prompt))

BuildCommentReplyPrompt == Build(CommentReplyPrompt(prompt))

\* ------------------------------------------------- the forum client's quota

\* The transport of MoltbookClient and the deque of its request hook; sent
\* holds the time of every request that went out, whoever sent it.
\* while timestamps and timestamps[0] <= cutoff: timestamps.popleft()
RECURSIVE Evict(_, _)
Evict(stamps, cutoff) ==
    IF stamps # <<>> /\ Head(stamps) <= cutoff THEN Evict(Tail(stamps), cutoff)
    ELSE stamps

\* the hook built by _build_rate_limit_hook, run for one request at time now:
\* the time at which the request goes out and the deque it leaves
RateLimitHook(stamps, now) ==
    LET kept == Evict(stamps, now - WindowSeconds)
        wait == IF Len(kept) >= MaxRequests
                THEN Head(kept) + WindowSeconds - now ELSE 0
        out == IF wait > 0 THEN now + wait ELSE now
    IN  [at |-> out, stamps |-> Append(kept, out)]

\* one attempt of _request: _get_client builds a transport, with a hook of
\* its own, when there is none or it was closed; client.request runs the hook
Request ==
    /\ hook # Off /\ Len(hook.sent) < MaxSent
    /\ LET stamps == IF hook.client = "open" THEN hook.stamps ELSE <<>>
           h == RateLimitHook(stamps, hook.now)
       IN  /\ h.at <= MaxTime
           /\ hook' = [client |-> "open", stamps |-> h.stamps, now |-> h.at,
                       sent |-> Append(hook.sent, h.at)]
    /\ UNCHANGED <<core, san, flt, prompt, call, proc>>

\* fetch_heartbeat: a transport of its own, without event hooks
HeartbeatRequest ==
    /\ hook # Off /\ Len(hook.sent) < MaxSent
    /\ hook' = [hook EXCEPT !.sent = Append(@, hook.now)]
    /\ UNCHANGED <<core, san, flt, prompt, call, proc>>

\* MoltbookClient.close: the hook of the closed transport is not run again
CloseClient ==
    /\ hook # Off /\ hook.client = "open"
    /\ hook' = [hook EXCEPT !.client = "closed", !.stamps = <<>>]
    /\ UNCHANGED <<core, san, flt, prompt, call, proc>>

\* a second passes
Second ==
    /\ hook # Off /\ hook.now < MaxTime
    /\ hook' = [hook EXCEPT !.now = @ + 1]
    /\ UNCHANGED <<core, san, flt, prompt, call, proc>>

\* the requests that went out in the window that ends at time t
InWindow(t) ==
    Cardinality({k \in 1..Len(hook.sent) :
                    hook.sent[k] > t - WindowSeconds /\ hook.sent[k] <= t})

\* ------------------------------------------------------ the retried methods

\* GroqClient.generate, GroqClient.generate_json and MoltbookClient._request
\* carry @retry(stop=stop_after_attempt(3), retry=retry_if_not_exception_type(X)),
\* X being LLMRateLimitError for the model client and MoltbookClientError for
\* the forum client.
RetriedMethods == {"generate", "generate_json", "_request"}

\* what one attempt may end with: the value, or an exception
Outcome(kind) == [kind |-> kind, retry |-> "none"]

AttemptOutcomes(method) ==
    IF method = "_request"
    THEN {Outcome(k) : k \in {"ok", "MoltbookClientError", "timeout", "http_status"}}
    ELSE {Outcome(k) : k \in {"ok", "provider_error"}}
         \cup {[kind |-> "RateLimitError", retry |-> r] : r \in RetryAfters}
         \cup (IF method = "generate_json" THEN {Outcome("malformed")} ELSE {})

\* except RateLimitError: _handle_rate_limit raises LLMRateLimitError
Raised(outcome) ==
    IF outcome.kind = "RateLimitError" THEN "LLMRateLimitError" ELSE outcome.kind

\* A decorator that retries every exception.
NotRetried_nothing(method) == "none"

\* the exception type the decorator does not retry
NotRetried(method) ==
    IF method = "_request" THEN "MoltbookClientError" ELSE "LLMRateLimitError"

\* a caller calls the method
StartCall(method) ==
    /\ call # Off /\ call.n < MaxCalls
    /\ call.method = "none" \/ call.result # "pending"
    /\ call' = [method |-> method, attempts |-> <<>>, result |-> "pending",
                n |-> call.n + 1]
    /\ UNCHANGED <<core, san, flt, prompt, hook, proc>>

\* one attempt: the value is returned; an exception of the type that is not
\* retried leaves the call as it is; any other exception is retried until
\* the third attempt, after which the call raises RetryError
Attempt ==
    /\ call # Off /\ call.result = "pending"
    /\ \E outcome \in AttemptOutcomes(call.method) :
         LET tried == Append(call.attempts, outcome)
         IN  call' = [call EXCEPT
                        !.attempts = tried,
                        !.result =
                           IF outcome.kind = "ok" THEN "returned"
                           ELSE IF Raised(outcome) = NotRetried(call.method)
                           THEN Raised(outcome)
                           ELSE IF Len(tried) >= StopAfterAttempt THEN "RetryError"
                           ELSE "pending"]
    /\ UNCHANGED <<core, san, flt, prompt, hook, proc>>

\* -------------------------------------------------------------------- main

\* main() and the scheduler.  A cycle is a coroutine with CycleSteps points
\* at which it waits; first is the cycle main() awaits itself
\* (run_initial_heartbeat), job the cycle the scheduler runs as a task of its
\* own.
NotStarted == 0
Cancelled == 0 - 1
Done == CycleSteps + 1

InFlight(c) == c \in 1..CycleSteps

\* scheduler.start(), then await scheduler.run_initial_heartbeat()
SchedulerStart ==
    /\ proc # Off /\ proc.main = "start"
    /\ proc' = [proc EXCEPT !.main = "initial", !.sched = "running", !.first = 1]
    /\ UNCHANGED <<core, san, flt, prompt, hook, call>>

\* the initial cycle moves on; when it returns main() goes on to
\* await shutdown_event.wait()
InitialStep ==
    /\ proc # Off /\ proc.main = "initial" /\ InFlight(proc.first)
    /\ proc' = [proc EXCEPT !.first = @ + 1,
                            !.main = IF proc.first + 1 = Done THEN "waiting"
                                     ELSE @]
    /\ UNCHANGED <<core, san, flt, prompt, hook, call>>

\* the interval trigger fires: the scheduler starts run_heartbeat as a task
Fire ==
    /\ proc # Off /\ proc.sched = "running" /\ proc.main \in {"initial", "waiting"}
    /\ ~InFlight(proc.job) /\ proc.runs < MaxRuns
    /\ proc' = [proc EXCEPT !.job = 1, !.runs = @ + 1]
    /\ UNCHANGED <<core, san, flt, prompt, hook, call>>

\* the scheduled cycle moves on whenever main() waits: for the initial
\* cycle, for the signal, for the forum client's close() in agent.shutdown()
JobStep ==
    /\ proc # Off /\ InFlight(proc.job)
    /\ proc.main \in {"initial", "waiting", "closing"}
    /\ proc' = [proc EXCEPT !.job = @ + 1]
    /\ UNCHANGED <<core, san, flt, prompt, hook, call>>

\* SIGINT or SIGTERM: _signal_handler sets shutdown_event
Signal ==
    /\ proc # Off /\ proc.main \in {"initial", "waiting"} /\ ~proc.event
    /\ proc' = [proc EXCEPT !.event = TRUE]
    /\ UNCHANGED <<core, san, flt, prompt, hook, call>>

\* shutdown_event.wait() returns; finally: scheduler.stop(), which is
\* shutdown(wait=False): the scheduler starts nothing more, and it either
\* cancels the task of the running job or leaves it alone
SchedulerStop ==
    /\ proc # Off /\ proc.main = "waiting" /\ proc.event
    /\ \E cancel \in BOOLEAN :
         proc' = [proc EXCEPT !.main = "closing", !.sched = "stopped",
                              !.job = IF cancel /\ InFlight(@) THEN Cancelled ELSE @]
    /\ UNCHANGED <<core, san, flt, prompt, hook, call>>

\* agent.shutdown(): await self._moltbook.close()
CloseForum ==
    /\ proc # Off /\ proc.main = "closing"
    /\ proc' = [proc EXCEPT !.main = "closing_store", !.handles = "forum_closed"]
    /\ UNCHANGED <<core, san, flt, prompt, hook, call>>

\* agent.shutdown(): await self._state_repo.close(), which does not wait
CloseStore ==
    /\ proc # Off /\ proc.main = "closing_store"
    /\ proc' = [proc EXCEPT !.main = "closed", !.handles = "closed"]
    /\ UNCHANGED <<core, san, flt, prompt, hook, call>>

\* main() returns: asyncio.run cancels the tasks that are left
Exit ==
    /\ proc # Off /\ proc.main = "closed"
    /\ proc' = [proc EXCEPT !.main = "exited",
                            !.job = IF InFlight(@) THEN Cancelled ELSE @]
    /\ UNCHANGED <<core, san, flt, prompt, hook, call>>

\* ------------------------------------------- a long history of own posts

\* the forum's identifier of the post the agent published k posts before its
\* latest one of the earlier days, o0
EarlierPostId(k) == OwnPostId(0 - k)

\* The log of earlier days: n posts of the agent, the oldest first, each
\* followed by the HEARTBEAT entry of its cycle when hb is set.
EarlierLog(n, hb) ==
    LET post(k) == [type |-> "post_created", target |-> EarlierPostId(n - k),
                    details |-> "topic", created_at |-> StartHour - 24]
        beat == [type |-> "heartbeat", target |-> "none", details |-> "none",
                 created_at |-> StartHour - 24]
    IN  IF hb THEN [i \in 1..(2 * n) |-> IF i % 2 = 1 THEN post((i + 1) \div 2) ELSE beat]
        ELSE [i \in 1..n |-> post(i)]

EarlierLogs ==
    {EarlierLog(n, hb) : n \in (OwnPostWindow - 1)..MaxEarlierPosts, hb \in BOOLEAN}

\* the process starts with a log that holds about as many own posts as the
\* reply phase looks at, or more, in an environment that never fails; one
\* cycle of it is followed
InitOwn ==
    /\ clock = StartHour /\ tz = 0 /\ counted = NoCount
    /\ seen_ids = {} /\ replied_ids = {}
    /\ seen_file = AbsentFile /\ replied_file = AbsentFile
    /\ actions \in EarlierLogs
    /\ limits_file = NoLimits
    /\ agent_username = "none"
    /\ task = FreshTasks
    /\ cur = 0
    /\ up = "up"
    /\ cycles = MaxCycles - 1
    /\ published = 0
    /\ analyzed = [p \in Posts |-> 0]
    /\ factComments = [p \in Posts |-> 0]
    /\ replies = [c \in Comments |-> 0]
    /\ markedPosts = {}
    /\ markedComments = {}
    /\ faults = MaxFaults
    /\ AsideOff

SpecOwn == InitOwn /\ [][Next]_vars

\* ------------------------------------------- the components on their own

\* the cycle and the state repository at rest
CoreIdle ==
    /\ clock = StartHour /\ tz = 0 /\ counted = NoCount
    /\ seen_ids = {} /\ replied_ids = {}
    /\ seen_file = AbsentFile /\ replied_file = AbsentFile
    /\ actions = <<>>
    /\ limits_file = NoLimits
    /\ agent_username = "none"
    /\ task = FreshTasks
    /\ cur = 0
    /\ up = "up"
    /\ cycles = 0
    /\ published = 0
    /\ analyzed = [p \in Posts |-> 0]
    /\ factComments = [p \in Posts |-> 0]
    /\ replies = [c \in Comments |-> 0]
    /\ markedPosts = {}
    /\ markedComments = {}
    /\ faults = 0

\* InputSanitizer applied to any text
InitSanitizer ==
    /\ CoreIdle
    /\ san \in {[pc |-> "text", text |-> x, out |-> NoText, again |-> NoText,
                 flagged |-> FALSE] : x \in Texts}
    /\ flt = Off /\ prompt = Off /\ hook = Off /\ call = Off /\ proc = Off

NextSanitizer == CheckText \/ SanitizeText \/ SanitizeAgain

SpecSanitizer == InitSanitizer /\ [][NextSanitizer]_vars

\* filter_checkable called with any batch of posts
InitFilter ==
    /\ CoreIdle
    /\ flt \in {[posts |-> ps, k |-> 1, did |-> <<>>, results |-> <<>>,
                 raised |-> "none"] : ps \in SeqsUpTo(BatchPosts, MaxBatch)}
    /\ san = Off /\ prompt = Off /\ hook = Off /\ call = Off /\ proc = Off

SpecFilter == InitFilter /\ [][FilterCheckable]_vars

\* the three prompts built from what the forum and the analyzer's model hand
\* over: a post, the claim summary of its analysis, a comment; <<>> is a
\* missing field (None)
InitPrompt ==
    /\ CoreIdle
    /\ prompt \in
         {[title |-> t, body |-> b, submolt |-> s, claim_summary |-> c,
           comment_body |-> cb, comment_author |-> ca, built |-> {}] :
             t \in {Plain, Injected}, b \in {<<>>, Plain, Injected},
             s \in {<<>>, Plain, Injected}, c \in {<<>>, Plain, Injected},
             cb \in {Plain, Injected}, ca \in {<<>>, Plain, Injected}}
    /\ san = Off /\ flt = Off /\ hook = Off /\ call = Off /\ proc = Off

NextPrompt == BuildAnalyzePrompt \/ BuildFactCheckPrompt \/ BuildCommentReplyPrompt

SpecPrompt == InitPrompt /\ [][NextPrompt]_vars

\* the requests of the forum client over time
InitQuota ==
    /\ CoreIdle
    /\ hook = [client |-> "none", stamps |-> <<>>, now |-> 0, sent |-> <<>>]
    /\ san = Off /\ flt = Off /\ prompt = Off /\ call = Off /\ proc = Off

NextQuota == Request \/ HeartbeatRequest \/ CloseClient \/ Second

SpecQuota == InitQuota /\ [][NextQuota]_vars

\* calls of the retried methods
InitRetry ==
    /\ CoreIdle
    /\ call = [method |-> "none", attempts |-> <<>>, result |-> "none", n |-> 0]
    /\ san = Off /\ flt = Off /\ prompt = Off /\ hook = Off /\ proc = Off

NextRetry == (\E method \in RetriedMethods : StartCall(method)) \/ Attempt

SpecRetry == InitRetry /\ [][NextRetry]_vars

\* main() from its start to its return
InitMain ==
    /\ CoreIdle
    /\ proc = [main |-> "start", event |-> FALSE, sched |-> "new", first |-> NotStarted,
               job |-> NotStarted, handles |-> "open", runs |-> 0]
    /\ san = Off /\ flt = Off /\ prompt = Off /\ hook = Off /\ call = Off

NextMain ==
    \/ SchedulerStart
    \/ InitialStep
    \/ Fire
    \/ JobStep
    \/ Signal
    \/ SchedulerStop
    \/ CloseForum
    \/ CloseStore
    \/ Exit

SpecMain == InitMain /\ [][NextMain]_vars

\* ------------------------------------------------------------ properties

\* C1: over sequential cycles no post is handed to the analyzer
\* (filter_checkable) more than once, whether it comes back in the other feed,
\* twice in one feed or in a later cycle, and a post gets a fact-check comment
\* only if it was handed over: a cycle that meets only posts it has seen has
\* nothing unseen and comments on nothing.
C1_AnalyzedOnce ==
    /\ \A p \in Posts : analyzed[p] <= 1 /\ factComments[p] <= analyzed[p]
    /\ \A t \in Tasks :
         Range(task[t].unseen) \cup Range(task[t].checkable) \subseteq seen_ids

\* the second cycle has fetched a post the first one analyzed and commented on
C1_SecondCycleSameFeed ==
    /\ cycles = 2
    /\ \E t \in Tasks :
         /\ task[t].pc = "filter_seen"
         /\ task[t].posts = <<"p1">> /\ task[t].unseen = <<>>
         /\ task[t].sort = 1
    /\ analyzed["p1"] = 1 /\ factComments["p1"] = 1

\* C2: while the process runs, every post for which mark_post_seen has
\* returned is seen and every comment for which mark_comment_replied has
\* returned is replied, whatever the store did since and however often the
\* process was restarted on the same data directory.
C2_MarksSurvive ==
    up = "up" => markedPosts \subseteq seen_ids /\ markedComments \subseteq replied_ids

\* C3: over sequential cycles in which any step may fail, the forum accepts
\* at most one reply of the agent per comment (a reply is published when
\* create_comment with parent_id returns).
C3_OneReplyPerComment == \A c \in Comments : replies[c] <= 1

\* a reply to c1 went out, the file does not hold c1, and a cycle is about to
\* look at c1 again
C3_RepliedButNotOnDisk ==
    /\ replies["c1"] = 1
    /\ "c1" \notin replied_file.ids
    /\ "c1" \notin markedComments
    /\ \E t \in Tasks : task[t].pc = "get_post" /\ "c1" \in Range(task[t].comments)

\* C4: with the process stopped at any point and started again, no post gets
\* more than one fact-check comment and no comment more than one reply.
C4_NoDoubleActAcrossRestart ==
    /\ \A p \in Posts : factComments[p] <= 1
    /\ \A c \in Comments : replies[c] <= 1

\* C5: with cycles that overlap at their await points, no post is handed to
\* the analyzer or commented on twice and no comment gets two replies.
C5_NoDoubleActOverlapping ==
    /\ \A p \in Posts : analyzed[p] <= 1 /\ factComments[p] <= 1
    /\ \A c \in Comments : replies[c] <= 1

\* C6: an analyze call whose model call raised the rate-limit condition
\* raised it to its caller.
C6_RateLimitPropagates ==
    \A t \in Tasks : task[t].an.llm = "rate_limit" => task[t].an.raised

\* C7: an analyze call that failed otherwise (model error, malformed JSON,
\* JSON that does not validate) raised nothing and returned the default
\* result (no checkable claim, confidence 0.0), and filter_checkable did not
\* keep the post.
C7_SafeDefault ==
    \A t \in Tasks :
        task[t].an.llm \in {"error", "malformed", "invalid"} =>
            ~task[t].an.raised /\ task[t].an.dflt /\ ~task[t].an.kept

\* an analyze call has just been answered with JSON that does not validate and
\* the cycle goes on to the next unseen post
C7_AnalysisFailed ==
    \E t \in Tasks :
        task[t].an.llm = "invalid" /\ task[t].an.dflt /\ task[t].pc = "analyze"

\* C8: right after a model call of the browse phase met the rate limit the
\* cycle is in run_heartbeat's rate-limit handler, nowhere else.
C8_RateLimitAborts ==
    \A t \in Tasks : task[t].an.llm = "rate_limit" => task[t].pc = "write_limits"

\* C9: the rate-limit handler leaves the rate-limit file with the records it
\* held and one more, carrying the time, the phase and the retry-after value,
\* and the action log as it was.
C9_OneLimitRecord ==
    [][\A t \in Tasks :
         (task[t].pc = "write_limits" /\ task'[t].pc = "idle") =>
            /\ limits_file' = LimitsFile("ok", Append(limits_file.entries,
                                                      LimitRecord(task[t].retry, cycles)))
            /\ actions' = actions]_vars

\* C10: a cycle that ended without the rate-limit abort has appended exactly
\* one HEARTBEAT entry.
C10_HeartbeatLogged ==
    \A t \in Tasks :
        (task[t].pc = "idle" /\ task[t].last \in {"complete", "failed"}) =>
            task[t].hb = 1

\* what the step of a cycle that has just posted its fact-check comment does
\* about the vote: the vote call it goes on to, "none" when it makes none
VoteCallAfter(t) ==
    IF task'[t].pc = "vote" THEN task'[t].direction ELSE "none"

VoteAsked(verdict) ==
    CASE verdict \in {"true", "mostly_true"} -> "upvote"
      [] verdict \in {"false", "misleading"} -> "downvote"
      [] OTHER -> "none"

\* a VOTE_CAST entry is appended only by a cycle whose vote call went through,
\* for the post and with the direction of that call, and a cycle makes a vote
\* call only right after it logged its comment
VoteLoggedAsCast ==
    /\ \A t \in Tasks :
         /\ (task'[t].pc = "vote" /\ task[t].pc # "vote") => task[t].pc = "log_comment"
         /\ (task'[t].pc = "log_vote" /\ task[t].pc # "log_vote") =>
                /\ task[t].pc = "vote"
                /\ task'[t].direction = task[t].direction
                /\ task'[t].checkable = task[t].checkable
    /\ (Len(actions') > Len(actions) /\ actions'[Len(actions')].type = "vote_cast") =>
         \E t \in Tasks :
            /\ task[t].pc = "log_vote"
            /\ actions'[Len(actions')].target = Head(task[t].checkable)
            /\ actions'[Len(actions')].details = task[t].direction

\* C11 as stated: once the fact-check comment is posted the vote call is
\* fixed by the verdict alone: upvote exactly for "true" and "mostly_true",
\* downvote exactly for "false" and "misleading", none for any other verdict.
C11_VoteByVerdictAlone ==
    [][\A t \in Tasks :
         (task[t].pc = "log_comment" /\ task'[t] # task[t]) =>
            VoteCallAfter(t) = VoteAsked(task[t].verdict)]_vars

\* C11 amended: once the fact-check comment is posted and its COMMENT_CREATED
\* entry is logged, the vote call is fixed by the verdict: upvote exactly for
\* "true" and "mostly_true", downvote exactly for "false" and "misleading",
\* none for any other verdict; when the entry could not be logged no vote call
\* is made whatever the verdict; a VOTE_CAST entry is logged only for a vote
\* call that was made and went through.
C11_VoteByVerdictOnceLogged ==
    [][/\ \A t \in Tasks :
            (task[t].pc = "log_comment" /\ task'[t] # task[t]) =>
                VoteCallAfter(t) = IF actions' # actions THEN VoteAsked(task[t].verdict)
                                   ELSE "none"
       /\ VoteLoggedAsCast]_vars

\* a cycle is about to make the downvote call for a post it commented on
C11_DownvoteCall ==
    \E t \in Tasks :
        /\ task[t].pc = "vote" /\ task[t].direction = "downvote"
        /\ factComments[Head(task[t].checkable)] = 1
        /\ actions # <<>> /\ actions[Len(actions)].type = "comment_created"

\* every VOTE_CAST entry of the log has a COMMENT_CREATED entry for the same
\* post before it
VotesFollowComments(log) ==
    \A k \in 1..Len(log) :
        log[k].type = "vote_cast" =>
            \E j \in 1..(k - 1) :
                log[j].type = "comment_created" /\ log[j].target = log[k].target

\* C12 as stated: a cycle whose vote call for a post went through appends the
\* VOTE_CAST entry for that post, after the COMMENT_CREATED entry for it.
C12_VoteCallLogged ==
    [][\A t \in Tasks :
         (task[t].pc = "log_vote" /\ task'[t] # task[t]) =>
            /\ actions' = Append(actions, Entry("vote_cast", Head(task[t].checkable),
                                                task[t].direction))
            /\ VotesFollowComments(actions')]_vars

\* C12 amended: for a post with verdict "false" whose comment call succeeded,
\* the cycle appends the COMMENT_CREATED entry and goes on to one downvote
\* call, or fails to log and makes no vote call; after a vote call that went
\* through it appends the VOTE_CAST entry for the same post unless log_action
\* fails, and then the log stays as it was; a vote call that failed is never
\* logged; every VOTE_CAST entry has a COMMENT_CREATED entry for the same
\* post before it.
C12_CommentThenVoteLogged ==
    [][/\ \A t \in Tasks :
            LET post == Head(task[t].checkable)
            IN  /\ (task[t].pc = "log_comment" /\ task[t].verdict = "false"
                        /\ task'[t] # task[t]) =>
                      \/ /\ actions' = Append(actions, Entry("comment_created", post,
                                                             "verdict"))
                         /\ task'[t].pc = "vote" /\ task'[t].direction = "downvote"
                         /\ task'[t].checkable = task[t].checkable
                      \/ /\ actions' = actions
                         /\ task'[t].pc # "vote"
                /\ (task[t].pc = "vote" /\ faults' # faults) => task'[t].pc # "log_vote"
                /\ (task[t].pc = "log_vote" /\ task'[t] # task[t]) =>
                      \/ actions' = Append(actions, Entry("vote_cast", post,
                                                          task[t].direction))
                      \/ actions' = actions /\ faults' # faults
       /\ VotesFollowComments(actions')]_vars

\* the log ends with the pair of a downvoted post
C12_PairLogged ==
    /\ Len(actions) >= 2
    /\ actions[Len(actions) - 1].type = "comment_created"
    /\ actions[Len(actions)].type = "vote_cast"
    /\ actions[Len(actions)].details = "downvote"
    /\ actions[Len(actions)].target = actions[Len(actions) - 1].target

\* C13: in every cycle the fact-check comments the forum accepted during the
\* browse phase are at most max_comments_per_heartbeat.
C13_CommentBudget ==
    \A t \in Tasks : task[t].posted <= MaxCommentsPerHeartbeat

\* C14: in every cycle the replies the forum accepted during the reply phase
\* are at most max_replies_per_heartbeat.
C14_ReplyBudget ==
    \A t \in Tasks : task[t].sent <= MaxRepliesPerHeartbeat

\* C15: a post phase that starts with the day's POST_CREATED count at or above
\* max_posts_per_day ends at once: it does not go to the post creator or to
\* create_post, publishes nothing and leaves the action log as it was.
C15_CapSkipsPostPhase ==
    [][\A t \in Tasks :
         (/\ task[t].pc = "count_today"
          /\ task'[t] # task[t]
          /\ get_today_action_count(actions, "post_created") >= MaxPostsPerDay) =>
            /\ task'[t].pc \in {"log_heartbeat", "idle"}
            /\ actions' = actions
            /\ published' = published]_vars

\* the second cycle of the day has passed its post phase with the cap reached
\* by the post of the first, and the log still ends with the first cycle's
\* HEARTBEAT entry
C15_CapReached ==
    /\ cycles = 2 /\ published = 1
    /\ get_today_action_count(actions, "post_created") >= MaxPostsPerDay
    /\ actions[Len(actions)].type = "heartbeat"
    /\ \E t \in Tasks : task[t].pc = "log_heartbeat"

\* C16: the original posts the agent publishes within one calendar day are at
\* most max_posts_per_day (every cycle of the run falls on the same day).
C16_DailyCap == published <= MaxPostsPerDay

\* C17: get_today_action_count(type) returns the number of entries of that
\* type created on today's date, the date of an entry and today's date both
\* taken in the calendar of the machine's local time.
C17_CountsTodaysEntries ==
    counted.type # "none" =>
        counted.n = Cardinality({k \in 1..Len(actions) :
                        /\ actions[k].type = counted.type
                        /\ LocalDate(actions[k].created_at) = LocalDate(clock)})

\* C18: the action log is append-only: a step adds at most one entry, at the
\* end, and the entries already there stay as they are and in their order;
\* the steps that call mark_post_seen, mark_comment_replied,
\* get_action_target_ids or get_today_action_count leave the log as it was.
\* (load_state and save_state are not called by the agent; they read and
\* write state.json only.)
C18_LogAppendOnly ==
    [][/\ Len(actions') \in {Len(actions), Len(actions) + 1}
       /\ SubSeq(actions', 1, Len(actions)) = actions
       /\ \A t \in Tasks :
            (/\ task[t].pc \in {"filter_seen", "mark_replied", "own_posts", "count_today"}
             /\ task'[t] # task[t]) => actions' = actions]_vars

\* the log has grown over two cycles in which both marking operations and
\* both reading operations of the store were used
C18_LogGrown ==
    /\ Len(actions) >= 4
    /\ cycles = 2
    /\ markedPosts # {} /\ markedComments # {}
    /\ \E t \in Tasks : task[t].pc = "log_heartbeat"

\* the step of cycle t is a failed step of the engagement of one post
PostStepFailed(t) ==
    /\ task'[t] # task[t]
    /\ \/ task[t].pc = "generate_reply"
             /\ task'[t].pc \notin {"create_comment", "write_limits"}
       \/ task[t].pc = "create_comment" /\ factComments' = factComments
       \/ task[t].pc = "log_comment" /\ actions' = actions

\* the step of cycle t is a failed step of the engagement of one comment
CommentStepFailed(t) ==
    /\ task'[t] # task[t]
    /\ \/ task[t].pc = "generate_comment_reply"
             /\ task'[t].pc \notin {"create_reply", "write_limits"}
       \/ task[t].pc = "create_reply" /\ replies' = replies
       \/ task[t].pc = "mark_replied" /\ markedComments' = markedComments
       \/ task[t].pc = "log_replied" /\ actions' = actions

\* the positions in rest of the comments still to be replied to
StillToReply(rest) ==
    {k \in 1..Len(rest) :
        /\ rest[k] \notin replied_ids'
        /\ ~(agent_username # "none" /\ CommentAuthor(rest[k]) = agent_username)}

\* C19: a failure other than the rate limit while one post or one comment is
\* engaged does not end the cycle: the cycle goes on with the next checkable
\* post while the comment budget lasts, with the next comment that is neither
\* replied to nor the agent's own while the reply budget lasts, and otherwise
\* with the rest of its phases.
C19_FailureContained ==
    [][\A t \in Tasks :
         /\ PostStepFailed(t) =>
              LET rest == Tail(task[t].checkable)
              IN  IF rest # <<>> /\ task[t].made < MaxCommentsPerHeartbeat
                  THEN task'[t].pc = "generate_reply" /\ task'[t].checkable = rest
                  ELSE task'[t].pc \in {"get_feed", "own_posts"}
         /\ CommentStepFailed(t) =>
              LET rest == Tail(task[t].comments)
                  todo == StillToReply(rest)
              IN  IF todo # {} /\ task[t].replied < MaxRepliesPerHeartbeat
                  THEN /\ task'[t].pc = "generate_comment_reply"
                       /\ \E k \in todo :
                            /\ \A j \in todo : k <= j
                            /\ task'[t].comments = SubSeq(rest, k, Len(rest))
                  ELSE task'[t].pc \in {"get_comments", "count_today"}]_vars

\* the comment on one post is public but could not be logged, and the cycle
\* is generating the fact-check of the next checkable post
C19_NextPostAfterFailure ==
    \E t \in Tasks : \E p \in Posts :
        /\ task[t].pc = "generate_reply"
        /\ task[t].posted = 1 /\ task[t].made = 0
        /\ factComments[p] = 1
        /\ Head(task[t].checkable) # p
        /\ \A k \in 1..Len(actions) : actions[k].target # p

\* the entry the step appended to the action log, if it appended one
Appended(type) ==
    /\ Len(actions') = Len(actions) + 1
    /\ actions'[Len(actions')].type = type

\* C20: a failed generation publishes nothing.  A fact-check generation that
\* failed is followed by no create_comment call for that post, and neither it
\* nor any other step but a create_comment call made with a validated
\* response in hand adds a fact-check comment; COMMENT_CREATED is logged only
\* after such a call for its post.  A post generation that failed is followed
\* by no create_post call, a post is published only by a create_post call that
\* follows a generation that succeeded, and POST_CREATED is logged only after
\* such a call.
C20_FailedGenerationPublishesNothing ==
    [][/\ \A t \in Tasks :
            /\ task'[t].gen = "reply_failed" =>
                  /\ task[t].pc = "generate_reply"
                  /\ task'[t].pc # "create_comment"
                  /\ task'[t].pc = "generate_reply" =>
                        task'[t].checkable = Tail(task[t].checkable)
                  /\ factComments' = factComments /\ actions' = actions
            /\ task'[t].gen = "post_failed" =>
                  /\ task[t].pc = "post_creator"
                  /\ task'[t].pc = "log_heartbeat"
                  /\ published' = published /\ actions' = actions
            /\ (task'[t].pc = "create_comment" /\ task[t].pc # "create_comment") =>
                  /\ task[t].pc = "generate_reply"
                  /\ task'[t].verdict \in Verdicts /\ task'[t].gen = "none"
                  /\ task'[t].checkable = task[t].checkable
            /\ (task'[t].pc = "create_post" /\ task[t].pc # "create_post") =>
                  task[t].pc = "post_creator" /\ task'[t].gen = "none"
       /\ factComments' # factComments =>
            \E t \in Tasks :
                /\ task[t].pc = "create_comment" /\ task[t].verdict \in Verdicts
                /\ factComments' = [factComments EXCEPT ![Head(task[t].checkable)] = @ + 1]
       /\ published' # published => \E t \in Tasks : task[t].pc = "create_post"
       /\ Appended("comment_created") =>
            \E t \in Tasks :
                /\ task[t].pc = "log_comment"
                /\ actions'[Len(actions')].target = Head(task[t].checkable)
                /\ factComments[Head(task[t].checkable)] >= 1
       /\ Appended("post_created") =>
            \E t \in Tasks :
                /\ task[t].pc = "log_post"
                /\ actions'[Len(actions')].target = OwnPostId(published)]_vars

\* the fact-check generation for one post has just failed, nothing was
\* published, and the cycle is generating the fact-check of the next post
C20_GenerationFailed ==
    \E t \in Tasks :
        /\ task[t].gen = "reply_failed"
        /\ task[t].pc = "generate_reply"
        /\ \A p \in Posts : factComments[p] = 0
        /\ \A k \in 1..Len(actions) : actions[k].type # "comment_created"

\* what filter_checkable is to keep of its input from position j on, given
\* what analyze returned for each post
RECURSIVE KeptFrom(_, _, _)
KeptFrom(posts, did, j) ==
    IF j > Len(posts) THEN <<>>
    ELSE LET rest == KeptFrom(posts, did, j + 1)
             a == did[j].result
         IN  IF /\ ~is_suspicious_text(posts[j].title)
                /\ ~is_suspicious_text(posts[j].body)
                /\ a.has_checkable_claim
                /\ a.confidence >= MinConfidence
             THEN <<[post |-> posts[j], analysis |-> a]>> \o rest
             ELSE rest

\* C21: filter_checkable never calls analyze for a post whose raw title or raw
\* body is flagged by is_suspicious, and no such post is in its output.
C21_SuspiciousNeverAnalyzed ==
    flt # Off =>
      /\ \A j \in 1..Len(flt.did) :
           (is_suspicious_text(flt.posts[j].title) \/ is_suspicious_text(flt.posts[j].body))
              => ~flt.did[j].called
      /\ \A r \in Range(flt.results) :
           ~is_suspicious_text(r.post.title) /\ ~is_suspicious_text(r.post.body)

\* filter_checkable has returned a post after it skipped one that is flagged
\* by its body alone
C21_SkippedByBody ==
    /\ FilterDone
    /\ flt.results # <<>>
    /\ \E j \in 1..Len(flt.posts) :
         /\ flt.posts[j].title = Plain /\ flt.posts[j].body = Injected
         /\ ~flt.did[j].called

\* C22: the output of filter_checkable is the subsequence of its input, in
\* input order, of exactly the posts that are not suspicious and whose analysis
\* has has_checkable_claim true and a confidence of at least the threshold; a
\* confidence equal to the threshold is kept.
C22_OutputIsFilteredInput ==
    FilterDone => flt.results = KeptFrom(flt.posts, flt.did, 1)

\* of two posts analyzed, filter_checkable has kept the one whose confidence
\* equals the threshold
C22_KeptAtThreshold ==
    /\ FilterDone
    /\ Len(flt.posts) = 2 /\ Len(flt.results) = 1
    /\ \A j \in 1..2 : flt.did[j].called
    /\ flt.results[1].analysis.confidence = MinConfidence

\* C23: every piece of untrusted text placed into a prompt by the analyzer, the
\* fact checker or the comment-reply step has passed through sanitize: titles,
\* bodies, comment bodies, author names, the sub-community name, the
\* analyzer's claim summary.
C23_PromptFieldsSanitized ==
    prompt # Off =>
      \A b \in prompt.built :
        CASE b.template = "ANALYZE_POST" ->
               /\ b.title = sanitize(prompt.title)
               /\ b.body = sanitize(prompt.body)
               /\ b.submolt = sanitize(OrElse(prompt.submolt, General))
          [] b.template = "FACT_CHECK_REPLY" ->
               /\ b.title = sanitize(prompt.title)
               /\ b.body = sanitize(prompt.body)
               /\ b.claim_summary = sanitize(OrElse(prompt.claim_summary, UnspecifiedClaim))
          [] OTHER ->
               /\ b.post_title = sanitize(prompt.title)
               /\ b.post_body_excerpt = sanitize(Prefix(prompt.body, ExcerptLength))
               /\ b.comment_body = sanitize(prompt.comment_body)
               /\ b.comment_author = sanitize(OrElse(prompt.comment_author, Anonymous))

\* C24: sanitize is idempotent, sanitize(sanitize(T)) = sanitize(T), and
\* nothing the patterns flag is left in sanitize(T), also for texts at the
\* length limit and texts that grow under normalization or replacement.
C24_SanitizeIdempotent ==
    (san # Off /\ san.pc = "again") =>
      /\ san.again = san.out
      /\ ~is_suspicious_text(san.out)

\* the letter a character looks like
LooksLike(c) ==
    CASE c = "FW_e" -> "e"
      [] c = "CY_e" -> "e"
      [] OTHER -> c

\* text as it reads
AsRead(text) == [k \in 1..Len(text) |-> LooksLike(text[k])]

\* text holds an injection phrase written with lookalike characters
HomoglyphPhrase(text) ==
    /\ AsRead(text) # text
    /\ ~(\E k \in 1..Len(Patterns) : Search(Patterns[k], text))
    /\ \E k \in 1..Len(Patterns) : Search(Patterns[k], AsRead(text))

\* C25: a text that contains a known injection phrase written with homoglyph
\* substitution (fullwidth variants, lookalike letters of another script) is
\* flagged by is_suspicious.
C25_HomoglyphsFlagged ==
    (san # Off /\ san.pc # "text" /\ HomoglyphPhrase(san.text)) => san.flagged

\* C26: in every time window of the configured length the process sends at
\* most the quota of forum-API requests, whichever method issues them, the
\* heartbeat-document fetch and requests after the HTTP client was closed and
\* re-created included.
C26_QuotaPerWindow ==
    hook # Off => \A t \in 0..MaxTime : InWindow(t) <= MaxRequests

\* C27: a retried method is attempted at most 3 times; an attempt that fails
\* with the rate-limit condition, or with a structured client error, is never
\* followed by another attempt; the rate-limit condition reaches the caller
\* as LLMRateLimitError.
C27_BoundedRetries ==
    (call # Off /\ call.method # "none") =>
      /\ Len(call.attempts) <= 3
      /\ \A k \in 1..Len(call.attempts) :
           call.attempts[k].kind \in {"RateLimitError", "MoltbookClientError"}
              => k = Len(call.attempts)
      /\ \A k \in 1..Len(call.attempts) :
           call.attempts[k].kind = "RateLimitError" => call.result = "LLMRateLimitError"
      /\ \A k \in 1..Len(call.attempts) :
           call.attempts[k].kind = "MoltbookClientError"
              => call.result = "MoltbookClientError"

\* a model call was retried once and then met the rate limit
C27_RateLimitOnRetry ==
    /\ call # Off /\ call.method = "generate_json"
    /\ Len(call.attempts) = 2
    /\ call.attempts[2].kind = "RateLimitError"
    /\ call.result = "LLMRateLimitError"

\* C28: run_heartbeat never lets an exception escape to its caller, whichever
\* collaborator fails, the write of the rate-limit record included.
C28_NothingEscapes == \A t \in Tasks : task[t].last # "escaped"

\* C29: on the shutdown signal a cycle that is in flight is not interrupted:
\* it is never cancelled, and the handles are closed only when no cycle is in
\* flight.
C29_CycleNotInterrupted ==
    proc # Off =>
      /\ proc.job # Cancelled /\ proc.first # Cancelled
      /\ proc.handles # "open" => ~InFlight(proc.job) /\ ~InFlight(proc.first)

\* the phase of run_heartbeat a position belongs to: 1 fetch heartbeat,
\* 2 browse and engage, 3 reply to comments on own posts, 4 maybe create
\* post, 5 log HEARTBEAT; 0: outside the phases
Phase(pc) ==
    CASE pc = "fetch_heartbeat" -> 1
      [] pc \in {"get_feed", "get_posts", "filter_seen", "analyze", "generate_reply",
                 "create_comment", "log_comment", "vote", "log_vote"} -> 2
      [] pc \in {"own_posts", "get_profile", "get_comments", "get_post",
                 "generate_comment_reply", "create_reply", "mark_replied",
                 "log_replied", "vote_comment", "log_comment_vote"} -> 3
      [] pc \in {"count_today", "post_creator", "create_post", "log_post"} -> 4
      [] pc = "log_heartbeat" -> 5
      [] OTHER -> 0

\* a step of cycle t in which no rate-limit condition is handled
PhaseStep(t) ==
    /\ task'[t] # task[t]
    /\ task[t].pc # "write_limits" /\ task'[t].pc # "write_limits"

\* the step stays in its phase or starts the next one; the cycle starts with
\* the first phase and ends after the last
InOrder(t) ==
    CASE task[t].pc = "idle" -> task'[t].pc = "fetch_heartbeat"
      [] task[t].pc = "log_heartbeat" -> task'[t].pc = "idle"
      [] OTHER -> Phase(task'[t].pc) \in {Phase(task[t].pc), Phase(task[t].pc) + 1}

\* the step ends the cycle as failed: an exception reached the last handler
\* of run_heartbeat
EndsFailed(t) == task'[t].pc = "idle" /\ task'[t].last = "failed"

C31_FeedFailureSkipsSort ==
    [][\A t \in Tasks :
         /\ (task[t].pc = "get_feed" /\ task'[t] # task[t]
                 /\ task'[t].pc # "filter_seen" /\ task'[t].posts = <<>>
                 /\ task'[t].sort = task[t].sort) =>
               task'[t].pc = "get_posts"
         /\ (task[t].pc = "get_posts" /\ faults' # faults) =>
               IF task[t].sort = 1
               THEN task'[t].pc = "get_feed" /\ task'[t].sort = 2
               ELSE task'[t].pc = "own_posts"]_vars

\* the posts cycle t has passed on to filter_checkable, generate_reply or
\* create_comment and is still working on
Engaging(t) ==
    IF task[t].pc \in {"analyze", "generate_reply", "create_comment"}
    THEN Range(task[t].unseen) \cup Range(task[t].checkable)
    ELSE {}

\* C32: a post is durably marked seen before any engagement on it begins:
\* while it is with filter_checkable, generate_reply or create_comment its
\* identifier is in the seen set and in the seen file, and a post that was
\* passed to filter_checkable once is seen in every later cycle, whatever
\* failed in between.
C32_SeenBeforeEngagement ==
    /\ \A t \in Tasks : Engaging(t) \subseteq seen_ids \cap seen_file.ids
    /\ up = "up" => \A p \in Posts : analyzed[p] > 0 => is_post_seen(seen_ids, p)

\* C33: in the reply phase the comment for which a reply is generated or
\* posted is not marked replied and is not a comment of the agent itself,
\* also in a cycle whose profile fetch failed.
C33_NoReplyToRepliedOrOwn ==
    \A t \in Tasks :
        task[t].pc \in {"generate_comment_reply", "create_reply"} =>
            /\ ~is_comment_replied(replied_ids, Head(task[t].comments))
            /\ CommentAuthor(Head(task[t].comments)) # AgentName

\* the positions of the POST_CREATED entries of the log
PostEntries == {k \in 1..Len(actions) : actions[k].type = "post_created"}

\* the own posts cycle t is still to fetch the comments of, the next first,
\* once its step is done
ToVisit(t) ==
    IF task'[t].pc = "get_comments" THEN <<task'[t].cpost>> \o task'[t].own
    ELSE task'[t].own

\* C34: the reply phase visits only targets of POST_CREATED entries, at most
\* the 10 most recently logged ones, from the most recently logged to the
\* oldest: the list it starts with holds the target of the i-th latest entry
\* at place i, for the 10 latest entries at most, every comment page fetched
\* afterwards is the one of the head of what is left of that list, and the
\* post fetched for the prompt is the post whose comments were fetched.
C34_LastTenNewestFirst ==
    [][\A t \in Tasks :
         /\ (task[t].pc = "own_posts" /\ task'[t] # task[t]
                 /\ task'[t].pc # "idle") =>
              /\ Len(ToVisit(t)) = IF Cardinality(PostEntries) < 10
                                   THEN Cardinality(PostEntries) ELSE 10
              /\ \A i \in 1..Len(ToVisit(t)) :
                   \E k \in PostEntries :
                      /\ actions[k].target = ToVisit(t)[i]
                      /\ Cardinality({j \in PostEntries : j > k}) = i - 1
         /\ (Phase(task[t].pc) = 3 /\ task[t].pc # "own_posts"
                 /\ task'[t] # task[t]) =>
              /\ task'[t].pc = "get_comments" =>
                    /\ task[t].own # <<>>
                    /\ task'[t].cpost = Head(task[t].own)
                    /\ task'[t].own = Tail(task[t].own)
              /\ (task'[t].pc # "get_comments" /\ Phase(task'[t].pc) = 3) =>
                    /\ task'[t].own = task[t].own
                    /\ task'[t].cpost = task[t].cpost]_vars

\* with more than 10 own posts in the log, a cycle fetches the comments of
\* the tenth latest one and has no further post to visit
C34_TenthPostVisited ==
    /\ Cardinality(PostEntries) > 10
    /\ \E t \in Tasks :
         /\ task[t].pc = "get_comments"
         /\ task[t].cpost = EarlierPostId(9)
         /\ task[t].own = <<>>

\* the comment cycle t is replying to
Replying(t) == Head(task[t].comments)

\* Each step of a reply is reached from the step before it, for the same
\* comment, and only when that step went through: the reply is posted under
\* the comment after its text was generated, the comment is marked after the
\* reply was posted, COMMENT_REPLIED is appended after the mark, the vote call
\* follows that entry, and COMMENT_VOTE_CAST is appended only after a vote
\* call that went through.  A failed vote call changes nothing and the cycle
\* goes on.
ReplyStepsInOrder(t) ==
    /\ (task'[t].pc # task[t].pc /\ task'[t].pc \in
            {"create_reply", "mark_replied", "log_replied", "vote_comment",
             "log_comment_vote"}) =>
          task'[t].comments = task[t].comments /\ task'[t].cpost = task[t].cpost
    /\ task'[t].pc = "create_reply" => task[t].pc = "generate_comment_reply"
    /\ task'[t].pc = "mark_replied" =>
          /\ task[t].pc = "create_reply"
          /\ replies' = [replies EXCEPT ![Replying(t)] = @ + 1]
    /\ task'[t].pc = "log_replied" =>
          /\ task[t].pc = "mark_replied"
          /\ is_comment_replied(replied_ids', Replying(t))
    /\ task'[t].pc = "vote_comment" =>
          /\ task[t].pc = "log_replied"
          /\ actions' = Append(actions, Entry("comment_replied", Replying(t),
                                              task[t].cpost))
    /\ task'[t].pc = "log_comment_vote" =>
          task[t].pc = "vote_comment" /\ faults' = faults
    /\ (task[t].pc = "log_comment_vote" /\ actions' # actions) =>
          actions' = Append(actions, Entry("comment_vote_cast", Replying(t), "upvote"))
    /\ (task[t].pc = "vote_comment" /\ faults' # faults) =>
          /\ replies' = replies /\ replied_ids' = replied_ids /\ actions' = actions
          /\ task'[t].pc \in {"generate_comment_reply", "get_comments", "count_today"}

\* an entry about a comment is appended by the step of a cycle that logs it
CommentEntriesLogged ==
    /\ Appended("comment_replied") => \E t \in Tasks : task[t].pc = "log_replied"
    /\ Appended("comment_vote_cast") => \E t \in Tasks : task[t].pc = "log_comment_vote"

\* C35 as stated: for each comment replied to the steps happen in the order
\* generate, post as a threaded reply, mark replied, append COMMENT_REPLIED,
\* then the upvote exactly when the comment's body has at least 50
\* characters; COMMENT_VOTE_CAST is appended only after the vote went through
\* and a failed vote does not undo or fail the reply.
C35_ReplyThenVote ==
    [][/\ \A t \in Tasks :
            task'[t] # task[t] =>
              /\ ReplyStepsInOrder(t)
              /\ task[t].pc = "mark_replied" => task'[t].pc = "log_replied"
              /\ task[t].pc = "log_replied" =>
                    (task'[t].pc = "vote_comment" <=> CommentBodyLen(Replying(t)) >= 50)
       /\ CommentEntriesLogged]_vars

\* C35 amended: the steps happen in that order, each only after the one before
\* it went through; the upvote is made exactly when the comment was marked,
\* its COMMENT_REPLIED entry was appended and its body has at least 50
\* characters: when mark_comment_replied or log_action fails after the reply
\* was posted, the reply stays public and no vote call is made whatever the
\* length of the body.
C35_ReplyThenVoteOnceLogged ==
    [][/\ \A t \in Tasks :
            task'[t] # task[t] =>
              /\ ReplyStepsInOrder(t)
              /\ task[t].pc = "mark_replied" =>
                    /\ task'[t].pc = "log_replied" <=> faults' = faults
                    /\ replies' = replies
              /\ task[t].pc = "log_replied" =>
                    /\ task'[t].pc = "vote_comment" <=>
                          (actions' # actions /\ CommentBodyLen(Replying(t)) >= 50)
                    /\ replies' = replies
       /\ CommentEntriesLogged]_vars

\* the log ends with the entries of a reply to c1 and of the upvote of c1
C35_ReplyAndVoteLogged ==
    /\ Len(actions) >= 2
    /\ actions[Len(actions) - 1].type = "comment_replied"
    /\ actions[Len(actions) - 1].target = "c1"
    /\ actions[Len(actions)].type = "comment_vote_cast"
    /\ actions[Len(actions)].target = "c1"
    /\ replies["c1"] = 1 /\ "c1" \in replied_file.ids

\* a cycle calls get_profile only while no name is cached, and a cached name
\* is never changed or dropped: every later cycle uses it
CachedNameKept ==
    /\ \A t \in Tasks :
         (task'[t].pc = "get_profile" /\ task'[t] # task[t]) =>
            agent_username = "none" /\ task[t].pc = "own_posts"
    /\ agent_username # "none" => agent_username' = agent_username

C37_WriteAhead ==
    /\ seen_ids \subseteq seen_file.ids
    /\ replied_ids \subseteq replied_file.ids

\* the positions of the entries of a type and a target that this run appended
LoggedNow(type, target) ==
    {k \in 1..Len(actions) :
        /\ actions[k].type = type /\ actions[k].target = target
        /\ actions[k].created_at >= StartHour}

\* the identifiers the forum returned for the posts published in this run
PublishedNow == {OwnPostId(n) : n \in 1..published}

\* what the log says happened did happen: per post no more COMMENT_CREATED
\* entries than fact-check comments the forum accepted, per comment no more
\* COMMENT_REPLIED entries than replies the forum accepted, no more
\* POST_CREATED entries than posts published, each with the identifier the
\* forum returned (the entries of earlier days are taken as true)
LogIsTrue ==
    /\ \A p \in Posts :
         Cardinality(LoggedNow("comment_created", p)) <= factComments[p]
    /\ \A c \in Comments :
         Cardinality(LoggedNow("comment_replied", c)) <= replies[c]
    /\ Cardinality({k \in PostEntries : actions[k].created_at >= StartHour})
          <= published
    /\ \A k \in PostEntries :
         actions[k].created_at >= StartHour => actions[k].target \in PublishedNow
    /\ Range(get_action_target_ids(actions, "post_created"))
          \subseteq PublishedNow \cup
                    {actions[k].target : k \in {j \in PostEntries :
                                                   actions[j].created_at < StartHour}}

\* C38: every entry of the action log records an action that had happened
\* when it was logged: COMMENT_CREATED, COMMENT_REPLIED and POST_CREATED
\* entries never outnumber the comments, replies and posts the forum
\* accepted, the identifiers of the POST_CREATED entries are those of posts the
\* agent published, and a VOTE_CAST or COMMENT_VOTE_CAST entry is appended
\* only by a cycle whose vote call just before went through.
C38_LoggedAfterTheFact ==
    /\ []LogIsTrue
    /\ [][/\ \A t \in Tasks :
               (task'[t].pc \in {"log_vote", "log_comment_vote"} /\ task'[t] # task[t]) =>
                  /\ task[t].pc = IF task'[t].pc = "log_vote" THEN "vote" ELSE "vote_comment"
                  /\ faults' = faults
          /\ Appended("vote_cast") =>
               \E t \in Tasks :
                  /\ task[t].pc = "log_vote"
                  /\ actions'[Len(actions')].target = Head(task[t].checkable)
          /\ Appended("comment_vote_cast") =>
               \E t \in Tasks :
                  /\ task[t].pc = "log_comment_vote"
                  /\ actions'[Len(actions')].target = Head(task[t].comments)]_vars

\* this run has logged an entry of each of the five types
C38_AllFiveLogged ==
    /\ \A type \in {"comment_created", "vote_cast", "comment_replied",
                    "comment_vote_cast", "post_created"} :
         \E k \in 1..Len(actions) :
            actions[k].type = type /\ actions[k].created_at >= StartHour
    /\ published >= 1

\* C39: over the cycles of the agent each post gets at most one engagement
\* attempt: a post is handed to filter_checkable only if no cycle marked it
\* seen or was handed it before, whether or not it was commented on then
\* (the comment budget was reached, the fact-check or the comment call
\* failed, the cycle aborted on the rate limit), and a fact-check comment is
\* posted on it only by the cycle that was handed it, once.
C39_OneAttemptPerPost ==
    [][\A p \in Posts :
         /\ analyzed'[p] # analyzed[p] =>
               /\ analyzed[p] = 0 /\ analyzed'[p] = 1
               /\ p \notin markedPosts \/ \E t \in Tasks : p \in Range(task[t].unseen)
         /\ factComments'[p] # factComments[p] =>
               /\ factComments[p] = 0 /\ factComments'[p] = 1
               /\ analyzed[p] = 1
               /\ \E t \in Tasks :
                    task[t].pc = "create_comment" /\ Head(task[t].checkable) = p]_vars

\* the second cycle has fetched, first in its feed, a post that the first
\* cycle marked seen and analyzed but did not comment on
C39_SeenNotCommentedFetchedAgain ==
    /\ cycles = 2
    /\ analyzed["p1"] = 1 /\ factComments["p1"] = 0
    /\ "p1" \in markedPosts
    /\ \E t \in Tasks :
         /\ task[t].pc = "filter_seen" /\ task[t].sort = 1
         /\ task[t].posts # <<>> /\ Head(task[t].posts) = "p1"
         /\ task[t].unseen = <<>>

\* the first comment of a page that cycle t would still reply to: not marked
\* replied and, when the agent's name is known, not the agent's own
FirstOpen(comments) ==
    LET open == {k \in 1..Len(comments) :
                    /\ comments[k] \notin replied_ids
                    /\ ~(agent_username # "none"
                            /\ CommentAuthor(comments[k]) = agent_username)}
    IN  IF open = {} THEN 0 ELSE CHOOSE k \in open : \A j \in open : k <= j

\* C40: a comment is in the replied set only if a reply to it was posted; the
\* set grows only by the comment a cycle has just replied to, so a comment
\* whose reply generation or create_comment failed, or that the reply budget
\* cut off, stays unmarked; and a cycle that has fetched a post and its
\* comments goes on to generate a reply for the first comment of the page
\* that is unmarked and not its own.
C40_MarkedAfterReply ==
    /\ [](\A c \in replied_ids : replies[c] >= 1)
    /\ [][/\ replied_ids' # replied_ids =>
               \E t \in Tasks :
                  /\ task[t].pc = "mark_replied"
                  /\ replies[Replying(t)] >= 1
                  /\ replied_ids' = replied_ids \cup {Replying(t)}
          /\ \A t \in Tasks :
               (task[t].pc = "get_post" /\ task'[t] # task[t] /\ faults' = faults) =>
                  LET k == FirstOpen(task[t].comments)
                  IN  IF k = 0 THEN task'[t].pc \in {"get_comments", "count_today"}
                      ELSE /\ task'[t].pc = "generate_comment_reply"
                           /\ task'[t].comments =
                                 SubSeq(task[t].comments, k, Len(task[t].comments))]_vars

\* the second cycle is generating a reply to c1, which no cycle has replied
\* to or marked, after the first cycle replied to c3 and marked it
C40_UnmarkedConsideredAgain ==
    /\ cycles = 2
    /\ replies["c3"] = 1 /\ "c3" \in replied_ids
    /\ replies["c1"] = 0 /\ "c1" \notin replied_ids
    /\ \E t \in Tasks :
         /\ task[t].pc = "generate_comment_reply"
         /\ Replying(t) = "c1"
         /\ task[t].sent = 0

====
